---------------------------- MODULE Spec2Model ----------------------------
(***************************************************************************)
(* A model of the Obelisk chat front end (kshgrk/obelisk):                 *)
(*   - AppState and its persisted blob (main.js 16-119),                   *)
(*   - the three conversation normalisers (SessionManager.extractMessages, *)
(*     conversation-parser.js, parseConversationTurns),                    *)
(*   - the two streaming response handlers (ChatManager, and the older     *)
(*     function-style handler that main.js also carries).                  *)
(*                                                                         *)
(* JavaScript values are modelled by their JSON lexemes (TLA+ strings):    *)
(* the number 1.0 is "1", null is "null", a missing property is            *)
(* "undefined".  JavaScript objects are functions from property names.     *)
(***************************************************************************)
EXTENDS Integers, Sequences, FiniteSets, TLC

VARIABLES
    appState,       \* the AppState singleton (main.js 121)
    localStorage,   \* the value under the key 'obelisk_state'
    appPc,          \* "constructed" before initializeApp ran loadState, then "running"
    lastOverride,   \* the last getConfigOverride call: the aiConfig read and the result
    history,        \* the conversation_history of the fetched session document
    rendered,       \* the message list handed to the renderer
    renderedBy,     \* which normaliser produced it ("none" before any did)
    thrown,         \* the exception the last normaliser call raised ("none": it returned)
    network,        \* the response bodies the server will send, one per request
    streams,        \* one record per sendMessage call: the state of its handler
    chat,           \* the message elements of the chat container, in document order
    currentSessionId, \* the global of the function-style code (main.js 1457)
    sessionLoads    \* one record per SessionManager.loadSession call

stateVars == <<appState, localStorage, appPc, lastOverride>>
normVars == <<history, rendered, renderedBy, thrown>>
streamVars == <<network, streams, chat, currentSessionId, sessionLoads>>

vars == <<appState, localStorage, appPc, lastOverride, history, rendered, renderedBy, thrown,
          network, streams, chat, currentSessionId, sessionLoads>>

---------------------------------------------------------------------------
(* JavaScript values and objects *)

Undefined == "undefined"
Null == "null"
NaN == "NaN"

EmptyObj == [k \in {} |-> Undefined]

\* obj[k] of JavaScript: undefined when the property is missing.
Get(obj, k) == IF k \in DOMAIN obj THEN obj[k] ELSE Undefined

\* A variant of Spread in which the properties of the first object win.
Spread_firstWins(a, b) == [k \in (DOMAIN a) \cup (DOMAIN b) |-> IF k \in DOMAIN a THEN a[k] ELSE b[k]]

\* { ...a, ...b }
Spread(a, b) == [k \in (DOMAIN a) \cup (DOMAIN b) |-> IF k \in DOMAIN b THEN b[k] ELSE a[k]]

\* The falsy scalars (an object is always truthy).
Falsy == {Undefined, Null, NaN, "", "0", "false"}

---------------------------------------------------------------------------
(* AppState: main.js 16-119 *)

\* The object literal of the constructor (main.js 27-33); 1.0 prints as 1.
AppState_aiConfig ==
    [model |-> "deepseek/deepseek-chat-v3-0324:free", temperature |-> "1",
     max_tokens |-> "5000", streaming |-> "true", show_tool_calls |-> "true"]

\* A variant of AppState_constructor with another page size.
AppState_constructor_pageSize20 ==
    [currentSessionId |-> Null,
     sessions |-> << >>,
     isLoading |-> "false",
     currentStreamingMessage |-> Null,
     pagination |-> [page |-> "1", pageSize |-> "20", total |-> "0"],
     aiConfig |-> AppState_aiConfig]

\* new AppState()
AppState_constructor ==
    [currentSessionId |-> Null,
     sessions |-> << >>,
     isLoading |-> "false",
     currentStreamingMessage |-> Null,
     pagination |-> [page |-> "1", pageSize |-> "50", total |-> "0"],
     aiConfig |-> AppState_aiConfig]

\* The object literal loadState resets aiConfig to (main.js 70-76).
loadState_defaults ==
    [model |-> "deepseek/deepseek-chat-v3-0324:free", temperature |-> "1",
     max_tokens |-> "5000", streaming |-> "true", show_tool_calls |-> "true"]

\* The object literal getConfigOverride compares with (main.js 100-104).
getConfigOverride_defaults ==
    [model |-> "deepseek/deepseek-chat-v3-0324:free", temperature |-> "1",
     max_tokens |-> "5000"]

\* The version saveState writes and loadState expects (main.js 50, 67).
saveState_version == "1.1"

\* JSON.stringify of a scalar: NaN is written as null.
JSON_scalar(v) == IF v = NaN THEN Null ELSE v

\* JSON.stringify of a flat object: undefined properties are dropped.
JSON_object(o) == [k \in {j \in DOMAIN o : o[j] # Undefined} |-> JSON_scalar(o[k])]

\* A variant of saveState_document that writes the version of the older build.
saveState_document_oldVersion(st) ==
    ("version" :> "1.0")
    @@ (IF st.currentSessionId = Undefined THEN EmptyObj
        ELSE "currentSessionId" :> JSON_scalar(st.currentSessionId))
    @@ ("pagination" :> JSON_object(st.pagination))
    @@ ("aiConfig" :> JSON_object(st.aiConfig))

\* The document saveState serialises (main.js 49-54).
saveState_document(st) ==
    ("version" :> saveState_version)
    @@ (IF st.currentSessionId = Undefined THEN EmptyObj
        ELSE "currentSessionId" :> JSON_scalar(st.currentSessionId))
    @@ ("pagination" :> JSON_object(st.pagination))
    @@ ("aiConfig" :> JSON_object(st.aiConfig))

\* localStorage after AppState.saveState (main.js 47-58).
saveState(st) == [kind |-> "json", doc |-> saveState_document(st)]

ObjectOrEmpty(doc, k) == IF k \in DOMAIN doc THEN doc[k] ELSE EmptyObj

\* A variant of loadState_result that trusts the stored aiConfig whatever the version.
loadState_noVersionGate(st, stored) ==
    IF stored.kind # "json" THEN st
    ELSE LET state == stored.doc IN
         [st EXCEPT !.aiConfig = Spread(st.aiConfig, ObjectOrEmpty(state, "aiConfig")),
                    !.currentSessionId = Get(state, "currentSessionId"),
                    !.pagination = Spread(st.pagination, ObjectOrEmpty(state, "pagination"))]

\* AppState.loadState (main.js 60-91) as a function of the AppState and the
\* stored value.  getItem gives null when nothing is stored; JSON.parse throws
\* on a damaged value, which the catch absorbs before anything was assigned.
loadState_result(st, stored) ==
    IF stored.kind # "json" THEN st
    ELSE LET state == stored.doc
             version == Get(state, "version")
             migrated == version \in Falsy \/ version # saveState_version
             config == IF migrated THEN loadState_defaults
                       ELSE IF "aiConfig" \in DOMAIN state
                            THEN Spread(st.aiConfig, state["aiConfig"])
                            ELSE st.aiConfig
         IN [st EXCEPT !.aiConfig = config,
                       !.currentSessionId = Get(state, "currentSessionId"),
                       !.pagination = Spread(st.pagination, ObjectOrEmpty(state, "pagination"))]

\* A variant of getConfigOverride_result that does not look at max_tokens.
getConfigOverride_noMaxTokens(cfg) ==
    LET defaults == getConfigOverride_defaults
        o1 == IF Get(cfg, "model") # defaults.model
              THEN "model" :> Get(cfg, "model") ELSE EmptyObj
        o2 == IF Get(cfg, "temperature") # defaults.temperature
              THEN "temperature" :> Get(cfg, "temperature") ELSE EmptyObj
        override == o1 @@ o2
    IN IF Cardinality(DOMAIN override) > 0
       THEN [isNull |-> FALSE, value |-> override]
       ELSE [isNull |-> TRUE, value |-> EmptyObj]

\* AppState.getConfigOverride (main.js 98-118): null, or the object of the
\* tracked properties that differ from the defaults.
getConfigOverride_result(cfg) ==
    LET defaults == getConfigOverride_defaults
        o1 == IF Get(cfg, "model") # defaults.model
              THEN "model" :> Get(cfg, "model") ELSE EmptyObj
        o2 == IF Get(cfg, "temperature") # defaults.temperature
              THEN "temperature" :> Get(cfg, "temperature") ELSE EmptyObj
        o3 == IF Get(cfg, "max_tokens") # defaults.max_tokens
              THEN "max_tokens" :> Get(cfg, "max_tokens") ELSE EmptyObj
        override == o1 @@ o2 @@ o3
    IN IF Cardinality(DOMAIN override) > 0
       THEN [isNull |-> FALSE, value |-> override]
       ELSE [isNull |-> TRUE, value |-> EmptyObj]

---------------------------------------------------------------------------
(* What the environment supplies to AppState *)

SessionIds == {"abc", "s2"}

Opt(k, v) == IF v = Undefined THEN EmptyObj ELSE k :> v
OptObj(k, o) == IF o.has THEN k :> o.val ELSE EmptyObj
Absent == [has |-> FALSE, val |-> EmptyObj]
Present(o) == [has |-> TRUE, val |-> o]

\* Stored by an older build ("1.0"), by this build ("1.1"), or without a version.
StoredVersions == {Undefined, "1.0", "1.1"}
StoredSessionIds == {Undefined, Null, "abc"}
StoredPaginations ==
    {Absent, Present([page |-> "3"]),
     Present([page |-> "2", pageSize |-> "20", total |-> "45"])}
StoredConfigs ==
    {Absent, Present([temperature |-> "0.2"]),
     Present([model |-> "openai/gpt-4o", temperature |-> "0.7", max_tokens |-> "1000",
              streaming |-> "true", show_tool_calls |-> "false"])}

StoredDocuments ==
    {Opt("version", v) @@ Opt("currentSessionId", c)
        @@ OptObj("pagination", p) @@ OptObj("aiConfig", a) :
     v \in StoredVersions, c \in StoredSessionIds,
     p \in StoredPaginations, a \in StoredConfigs}

NothingStored == [kind |-> "absent", doc |-> EmptyObj]
DamagedValue == [kind |-> "corrupt", doc |-> EmptyObj]

InitialStorage ==
    {NothingStored, DamagedValue} \cup {[kind |-> "json", doc |-> d] : d \in StoredDocuments}

\* The session lists and pagination SessionManager.loadSessions passes to
\* setSessions (main.js 638-645).
SessionLists == {<< >>, <<"abc">>, <<"abc", "s2">>}
ListPaginations ==
    {[page |-> "1", pageSize |-> "50", total |-> "0"],
     [page |-> "2", pageSize |-> "50", total |-> "120"]}

\* The objects ConfigManager.saveConfig passes to updateAiConfig (main.js
\* 224-232): parseFloat and parseInt give NaN for a field left empty.
SavedConfigs ==
    {[model |-> m, temperature |-> t, max_tokens |-> x,
      streaming |-> "true", show_tool_calls |-> "true"] :
     m \in {"deepseek/deepseek-chat-v3-0324:free", "openai/gpt-4o"},
     t \in {"1", "0.2"},
     x \in {"5000", "1000", NaN}}

NoOverrideYet ==
    [called |-> FALSE, config |-> AppState_aiConfig,
     result |-> [isNull |-> TRUE, value |-> EmptyObj]]

---------------------------------------------------------------------------
(* The operations of AppState *)

\* initializeApp calls appState.loadState() first (main.js 1427).
loadState ==
    /\ appPc = "constructed"
    /\ appState' = loadState_result(appState, localStorage)
    /\ appPc' = "running"
    /\ UNCHANGED <<localStorage, lastOverride, normVars, streamVars>>

\* AppState.setCurrentSession (main.js 36-39)
setCurrentSession(sessionId) ==
    /\ appPc = "running"
    /\ appState' = [appState EXCEPT !.currentSessionId = sessionId]
    /\ localStorage' = saveState(appState')
    /\ UNCHANGED <<appPc, lastOverride, normVars, streamVars>>

\* AppState.setSessions (main.js 41-45)
setSessions(sessions, pagination) ==
    /\ appPc = "running"
    /\ appState' = [appState EXCEPT !.sessions = sessions,
                                    !.pagination = Spread(appState.pagination, pagination)]
    /\ localStorage' = saveState(appState')
    /\ UNCHANGED <<appPc, lastOverride, normVars, streamVars>>

\* A variant of updateAiConfig that replaces the configuration by its argument.
updateAiConfig_replaces(newConfig) ==
    /\ appPc = "running"
    /\ appState' = [appState EXCEPT !.aiConfig = newConfig]
    /\ localStorage' = saveState(appState')
    /\ UNCHANGED <<appPc, lastOverride, normVars, streamVars>>

\* AppState.updateAiConfig (main.js 93-96)
updateAiConfig(newConfig) ==
    /\ appPc = "running"
    /\ appState' = [appState EXCEPT !.aiConfig = Spread(appState.aiConfig, newConfig)]
    /\ localStorage' = saveState(appState')
    /\ UNCHANGED <<appPc, lastOverride, normVars, streamVars>>

\* A call of AppState.getConfigOverride (main.js 98-118, called at 600).
getConfigOverride ==
    /\ appPc = "running"
    /\ lastOverride' = [called |-> TRUE, config |-> appState.aiConfig,
                        result |-> getConfigOverride_result(appState.aiConfig)]
    /\ UNCHANGED <<appState, localStorage, appPc, normVars, streamVars>>

\* The page is loaded again: a new AppState is constructed (main.js 121) and
\* the stored value is what the last page left.
pageReload ==
    /\ appPc = "running"
    /\ appState' = AppState_constructor
    /\ appPc' = "constructed"
    /\ lastOverride' = NoOverrideYet
    /\ UNCHANGED <<localStorage, normVars, streamVars>>

\* No message has been sent and the chat container is empty.
StreamIdle ==
    /\ network = << >>
    /\ streams = << >>
    /\ chat = << >>
    /\ currentSessionId = Null
    /\ sessionLoads = << >>

\* No session document has been fetched.
NormIdle ==
    /\ history = [kind |-> "absent", turns |-> << >>]
    /\ rendered = << >>
    /\ renderedBy = "none"
    /\ thrown = "none"

InitState ==
    /\ NormIdle
    /\ StreamIdle
    /\ appState = AppState_constructor
    /\ localStorage \in InitialStorage
    /\ appPc = "constructed"
    /\ lastOverride = NoOverrideYet

NextState ==
    \/ loadState
    \/ \E id \in SessionIds \cup {Null} : setCurrentSession(id)
    \/ \E ss \in SessionLists, pg \in ListPaginations : setSessions(ss, pg)
    \/ \E cfg \in SavedConfigs : updateAiConfig(cfg)
    \/ getConfigOverride
    \/ pageReload

SpecState == InitState /\ [][NextState]_vars

\* The application starts on a blob stored by an older build, or without version.
InitMigrate ==
    /\ InitState
    /\ localStorage.kind = "json"
    /\ Get(localStorage.doc, "version") # saveState_version

SpecMigrate == InitMigrate /\ [][NextState]_vars

\* Calls of the mutators with some of the properties only: updateAiConfig
\* with a partial configuration (main.js 93), setSessions with a partial
\* pagination or none (its default is {}, main.js 41).
PartialConfigs ==
    {[temperature |-> "0.2"], [model |-> "openai/gpt-4o", max_tokens |-> "1000"], EmptyObj}
PartialPaginations == {EmptyObj, [page |-> "2"], [total |-> "120"]}

NextMutators ==
    \/ NextState
    \/ \E cfg \in PartialConfigs : updateAiConfig(cfg)
    \/ \E ss \in SessionLists, pg \in PartialPaginations : setSessions(ss, pg)

SpecMutators == InitState /\ [][NextMutators]_vars

---------------------------------------------------------------------------
(* The conversation normalisers *)

MaxTurns == 2
MaxResponses == 2

\* Timestamps of the session document (ISO strings) and new Date(t).getTime().
Timestamps == {"1970-01-01T00:00:00.100Z", "1970-01-01T00:00:00.101Z"}

Date_getTime(t) ==
    CASE t = "1970-01-01T00:00:00.100Z" -> 100
      [] t = "1970-01-01T00:00:00.101Z" -> 101
      [] t = "1970-01-01T00:00:00.102Z" -> 102

IndexName == <<"1", "2", "3", "4">>

\* The session document of section 6: a turn has an optional user_message and
\* an optional assistant_responses array; is_active is optional.
UserMessages ==
    {Absent} \cup {Present([content |-> "question", timestamp |-> t]) : t \in Timestamps}

Responses ==
    {Opt("is_active", a) @@ [final_content |-> "final", content |-> "raw", timestamp |-> t] :
     a \in {Undefined, "true", "false"}, t \in Timestamps}

ResponseArrays ==
    {Absent} \cup
    {Present(rs) : rs \in UNION {[1..n -> Responses] : n \in 0..MaxResponses}}

\* The message ids are those of the position in the document.
WithResponseIds(turnIdx, rs) ==
    [i \in 1..Len(rs) |->
        rs[i] @@ [message_id |-> "a" \o IndexName[turnIdx] \o "." \o IndexName[i],
                  response_id |-> "r" \o IndexName[turnIdx] \o "." \o IndexName[i]]]

Turn(turnIdx, number, u, rs) ==
    [turn_id |-> "turn-" \o IndexName[turnIdx], turn_number |-> number]
    @@ (IF u.has THEN "user_message" :> (u.val @@ [message_id |-> "u" \o IndexName[turnIdx]])
        ELSE EmptyObj)
    @@ (IF rs.has THEN "assistant_responses" :> WithResponseIds(turnIdx, rs.val)
        ELSE EmptyObj)

TurnShapes == [number : 1..MaxTurns, u : UserMessages, rs : ResponseArrays]

\* The turn array with the given shapes.
TurnArray(shapes) ==
    [i \in 1..Len(shapes) |-> Turn(i, shapes[i].number, shapes[i].u, shapes[i].rs)]

RECURSIVE Flatten(_)
\* The messages pushed by forEach, one after the other: the concatenation of
\* what every element pushed.
Flatten(pushed) ==
    IF pushed = << >> THEN << >> ELSE Head(pushed) \o Flatten(Tail(pushed))

\* `a || b` of JavaScript on scalars.
Or(a, b) == IF a \in Falsy THEN b ELSE a

EmptyMetadata == "{}"

\* SessionManager.extractMessages (main.js 840-872): no sort; a response is
\* taken unless is_active is exactly false.
SessionManager_userMessage(turn) ==
    IF "user_message" \in DOMAIN turn
    THEN << [id |-> Get(turn["user_message"], "message_id"),
             role |-> "user",
             content |-> Get(turn["user_message"], "content"),
             timestamp |-> Get(turn["user_message"], "timestamp"),
             metadata |-> Or(Get(turn["user_message"], "metadata"), EmptyMetadata)] >>
    ELSE << >>

SessionManager_response(response) ==
    IF Get(response, "is_active") # "false"
    THEN << [id |-> Get(response, "message_id"),
             role |-> "assistant",
             content |-> Or(Get(response, "final_content"), Get(response, "content")),
             timestamp |-> Get(response, "timestamp"),
             metadata |-> Or(Get(response, "metadata"), EmptyMetadata)] >>
    ELSE << >>

SessionManager_turn(turn) ==
    SessionManager_userMessage(turn)
    \o (IF "assistant_responses" \in DOMAIN turn
        THEN Flatten([i \in 1..Len(turn["assistant_responses"]) |-> SessionManager_response(turn["assistant_responses"][i])])
        ELSE << >>)

SessionManager_extractMessages(turns) == Flatten([i \in 1..Len(turns) |-> SessionManager_turn(turns[i])])

\* Array.prototype.sort((a, b) => a.timestamp - b.timestamp): a stable sort
\* (ECMAScript 2019) on the time values of the Date objects.
RECURSIVE Array_sort(_)
Array_sort(messages) ==
    IF messages = << >> THEN << >>
    ELSE LET n == Len(messages)
             sorted == Array_sort(SubSeq(messages, 1, n - 1))
             m == messages[n]
             k == Cardinality({i \in 1..Len(sorted) : sorted[i].timestamp - m.timestamp <= 0})
         IN SubSeq(sorted, 1, k) \o <<m>> \o SubSeq(sorted, k + 1, Len(sorted))

\* extractConversationMessages of conversation-parser.js (11-67): every
\* response is taken, the list is sorted by timestamp.
conversationParser_turn(turn) ==
    (IF "user_message" \in DOMAIN turn
     THEN << [id |-> Get(turn["user_message"], "message_id"),
              type |-> "user",
              content |-> Get(turn["user_message"], "content"),
              timestamp |-> Date_getTime(Get(turn["user_message"], "timestamp")),
              turnId |-> turn["turn_id"],
              turnNumber |-> turn["turn_number"],
              metadata |-> Or(Get(turn["user_message"], "metadata"), EmptyMetadata)] >>
     ELSE << >>)
    \o (IF "assistant_responses" \in DOMAIN turn
        THEN [i \in 1..Len(turn["assistant_responses"]) |->
                LET response == turn["assistant_responses"][i] IN
                [id |-> Get(response, "message_id"),
                 type |-> "assistant",
                 content |-> Or(Get(response, "final_content"), Get(response, "content")),
                 timestamp |-> Date_getTime(Get(response, "timestamp")),
                 turnId |-> turn["turn_id"],
                 turnNumber |-> turn["turn_number"],
                 responseId |-> Get(response, "response_id"),
                 isActive |-> Get(response, "is_active"),
                 metadata |-> Or(Get(response, "metadata"), EmptyMetadata)]]
        ELSE << >>)

\* The console.log calls of extractConversationMessages (conversation-parser.js
\* 37, 57) take content.substring(0, 50): a TypeError when the content of a
\* user message, or final_content || content of a response, is undefined or null.
conversationParser_throws(conversationData) ==
    /\ conversationData.kind = "turns"
    /\ \E i \in 1..Len(conversationData.turns) :
          \E turn \in {conversationData.turns[i]} :
              \/ /\ "user_message" \in DOMAIN turn
                 /\ Get(turn["user_message"], "content") \in {Undefined, Null}
              \/ /\ "assistant_responses" \in DOMAIN turn
                 /\ \E j \in 1..Len(turn["assistant_responses"]) :
                       Or(Get(turn["assistant_responses"][j], "final_content"),
                          Get(turn["assistant_responses"][j], "content")) \in {Undefined, Null}

conversationParser_extractConversationMessages(conversationData) ==
    IF conversationData.kind # "turns" THEN << >>
    ELSE Array_sort(Flatten([i \in 1..Len(conversationData.turns) |-> conversationParser_turn(conversationData.turns[i])]))

\* parseConversationTurns of parsers.js (src/unnamed/part_000 65-104): as
\* above, with the metadata copied as it is.
parsers_turn(turn) ==
    (IF "user_message" \in DOMAIN turn
     THEN << [id |-> Get(turn["user_message"], "message_id"),
              type |-> "user",
              content |-> Get(turn["user_message"], "content"),
              timestamp |-> Date_getTime(Get(turn["user_message"], "timestamp")),
              turnId |-> turn["turn_id"],
              turnNumber |-> turn["turn_number"],
              metadata |-> Get(turn["user_message"], "metadata")] >>
     ELSE << >>)
    \o (IF "assistant_responses" \in DOMAIN turn
        THEN [i \in 1..Len(turn["assistant_responses"]) |->
                LET response == turn["assistant_responses"][i] IN
                [id |-> Get(response, "message_id"),
                 type |-> "assistant",
                 content |-> Or(Get(response, "final_content"), Get(response, "content")),
                 timestamp |-> Date_getTime(Get(response, "timestamp")),
                 turnId |-> turn["turn_id"],
                 turnNumber |-> turn["turn_number"],
                 responseId |-> Get(response, "response_id"),
                 isActive |-> Get(response, "is_active"),
                 metadata |-> Get(response, "metadata")]]
        ELSE << >>)

parseConversationTurns(turns) == Array_sort(Flatten([i \in 1..Len(turns) |-> parsers_turn(turns[i])]))

\* SessionManager.renderConversationHistory (main.js 822-838): the list is
\* rendered in the order extractMessages returns it.
renderConversationHistory ==
    /\ rendered' = IF history.kind # "turns" THEN << >>
                   ELSE SessionManager_extractMessages(history.turns)
    /\ renderedBy' = "SessionManager"
    /\ thrown' = "none"
    /\ UNCHANGED <<history, stateVars, streamVars>>

\* window.conversationParser.extractConversationMessages (conversation-parser.js 143-148).
extractConversationMessages ==
    /\ IF conversationParser_throws(history)
       THEN rendered' = rendered /\ thrown' = "TypeError"
       ELSE /\ rendered' = conversationParser_extractConversationMessages(history)
            /\ thrown' = "none"
    /\ renderedBy' = "conversationParser"
    /\ UNCHANGED <<history, stateVars, streamVars>>

\* The older loadSession (main.js 1989-2009): validateConversationData, then
\* parseConversationTurns through extractConversationMessages (main.js
\* 2327-2333) or through parseSessionDetails (part_000 53-55).
loadSession_parseConversationTurns ==
    /\ rendered' = IF history.kind # "turns" THEN << >>
                   ELSE parseConversationTurns(history.turns)
    /\ renderedBy' = "parsers"
    /\ thrown' = "none"
    /\ UNCHANGED <<history, stateVars, streamVars>>

\* AppState is left as constructed.
StateIdle ==
    /\ appState = AppState_constructor
    /\ localStorage = NothingStored
    /\ appPc = "constructed"
    /\ lastOverride = NoOverrideYet

InitNormalize ==
    /\ StateIdle
    /\ StreamIdle
    /\ \/ history \in {[kind |-> "absent", turns |-> << >>],
                       [kind |-> "noTurns", turns |-> << >>]}
       \/ \E n \in 0..MaxTurns : \E shapes \in [1..n -> TurnShapes] :
             history = [kind |-> "turns", turns |-> TurnArray(shapes)]
    /\ rendered = << >>
    /\ renderedBy = "none"
    /\ thrown = "none"

NextNormalize ==
    \/ renderConversationHistory
    \/ extractConversationMessages
    \/ loadSession_parseConversationTurns

SpecNormalize == InitNormalize /\ [][NextNormalize]_vars

\* Session documents with optional data missing: the content and the
\* metadata of a message, final_content and content of a response; a
\* final_content that is there may be the empty string.
SparseUserMessages ==
    {Absent} \cup
    {Present(Opt("content", c) @@ Opt("metadata", m)
                @@ [timestamp |-> "1970-01-01T00:00:00.100Z"]) :
     c \in {Undefined, "question"}, m \in {Undefined, "{\"k\":1}"}}

SparseResponseArrays ==
    {Absent, Present(<< >>)} \cup
    {Present(<<Opt("final_content", f) @@ Opt("content", c) @@ Opt("metadata", m)
                  @@ [timestamp |-> "1970-01-01T00:00:00.101Z"]>>) :
     f \in {Undefined, "", "final"}, c \in {Undefined, "raw"}, m \in {Undefined, "{\"k\":1}"}}

SparseShapes == [number : {1}, u : SparseUserMessages, rs : SparseResponseArrays]

InitSparse ==
    /\ StateIdle
    /\ StreamIdle
    /\ \/ history \in {[kind |-> "absent", turns |-> << >>],
                       [kind |-> "noTurns", turns |-> << >>]}
       \/ \E n \in 0..MaxTurns : \E shapes \in [1..n -> SparseShapes] :
             history = [kind |-> "turns", turns |-> TurnArray(shapes)]
    /\ rendered = << >>
    /\ renderedBy = "none"
    /\ thrown = "none"

SpecSparse == InitSparse /\ [][NextNormalize]_vars

---------------------------------------------------------------------------
(* Text on the wire, and JSON.parse                                        *)
(*                                                                         *)
(* A string whose characters the code inspects (a chunk, a line, a JSON    *)
(* payload) is a tuple of one-character strings.  The value JSON.parse     *)
(* returns is tagged with its type: a string or an object whose            *)
(* properties are values again.                                            *)

\* The element of a singleton.  The({e(x) : x \in {v}}) is e with v for x.
The(S) == CHOOSE x \in S : TRUE

\* White space of String.prototype.trim and of JSON.
Whitespace == {" ", "\n", "\r", "\t"}

\* The string of a tuple of characters.
RECURSIVE String(_)
String(cs) == IF cs = << >> THEN "" ELSE Head(cs) \o String(Tail(cs))

\* line.startsWith(prefix)
startsWith(line, prefix) ==
    /\ Len(line) >= Len(prefix)
    /\ SubSeq(line, 1, Len(prefix)) = prefix

\* line.slice(n), line.substring(n)
slice(line, n) == SubSeq(line, n + 1, Len(line))

\* line.trim() is a non-empty string.
trim_truthy(line) == \E i \in 1..Len(line) : line[i] \notin Whitespace

\* chunk.split('\n'): the pieces between the newlines; there is always one.
RECURSIVE split(_)
split(text) ==
    IF \A i \in 1..Len(text) : text[i] # "\n" THEN <<text>>
    ELSE The({<<SubSeq(text, 1, i - 1)>> \o split(SubSeq(text, i + 1, Len(text))) :
              i \in {CHOOSE n \in 1..Len(text) :
                        text[n] = "\n" /\ \A m \in 1..(n - 1) : text[m] # "\n"}})

JString(s) == [type |-> "string", str |-> s, obj |-> EmptyObj]
JObject(o) == [type |-> "object", str |-> "", obj |-> o]
JUndefined == [type |-> "undefined", str |-> "", obj |-> EmptyObj]

\* value.k and value?.k: undefined unless value is an object that has k.
Prop(value, k) ==
    IF value.type = "object" /\ k \in DOMAIN value.obj THEN value.obj[k] ELSE JUndefined

Truthy(value) == value.type = "object" \/ (value.type = "string" /\ value.str # "")

\* a || b
OrValue(a, b) == IF Truthy(a) THEN a ELSE b

\* The string of a value, as string concatenation and template literals apply it.
StringOf(value) ==
    CASE value.type = "string" -> value.str
      [] value.type = "undefined" -> "undefined"
      [] OTHER -> "[object Object]"

\* value === 'literal'
StrictEquals(value, literal) == value.type = "string" /\ value.str = literal

parse_failed == [ok |-> FALSE, val |-> JUndefined, pos |-> 0]

\* The first position at or after i that holds no white space.
RECURSIVE parse_skip(_, _)
parse_skip(s, i) == IF i <= Len(s) /\ s[i] \in Whitespace THEN parse_skip(s, i + 1) ELSE i

\* The position of the closing quote at or after i, 0 when there is none.
RECURSIVE parse_closingQuote(_, _)
parse_closingQuote(s, i) ==
    IF i > Len(s) THEN 0 ELSE IF s[i] = "\"" THEN i ELSE parse_closingQuote(s, i + 1)

\* A string literal that opens at i (no escapes occur on this wire).
parse_string(s, i) ==
    The({IF close = 0 THEN parse_failed
         ELSE [ok |-> TRUE, val |-> JString(String(SubSeq(s, i + 1, close - 1))),
               pos |-> close + 1] :
         close \in {parse_closingQuote(s, i + 1)}})

RECURSIVE parse_value(_, _), parse_members(_, _, _)

\* "key": value pairs from position i up to the closing brace; a repeated
\* key keeps the last value.
parse_members(s, i, members) ==
    IF i > Len(s) \/ s[i] # "\"" THEN parse_failed
    ELSE The({
        IF ~key.ok THEN parse_failed
        ELSE The({
            IF colon > Len(s) \/ s[colon] # ":" THEN parse_failed
            ELSE The({
                IF ~value.ok THEN parse_failed
                ELSE The({
                    IF next > Len(s) THEN parse_failed
                    ELSE IF s[next] = "}"
                    THEN [ok |-> TRUE,
                          val |-> JObject((key.val.str :> value.val) @@ members),
                          pos |-> next + 1]
                    ELSE IF s[next] = ","
                    THEN parse_members(s, parse_skip(s, next + 1),
                                       (key.val.str :> value.val) @@ members)
                    ELSE parse_failed :
                    next \in {parse_skip(s, value.pos)}}) :
                value \in {parse_value(s, colon + 1)}}) :
            colon \in {parse_skip(s, key.pos)}}) :
        key \in {parse_string(s, i)}})

\* A value at or after from: a string literal or an object of string-keyed
\* values.  Everything else is a SyntaxError here; numbers, arrays and
\* literals do not occur on this wire except the bare marker [DONE], which
\* is one.
parse_value(s, from) ==
    The({IF i > Len(s) THEN parse_failed
         ELSE IF s[i] = "\"" THEN parse_string(s, i)
         ELSE IF s[i] = "{"
         THEN The({IF j <= Len(s) /\ s[j] = "}"
                   THEN [ok |-> TRUE, val |-> JObject(EmptyObj), pos |-> j + 1]
                   ELSE parse_members(s, j, EmptyObj) :
                   j \in {parse_skip(s, i + 1)}})
         ELSE parse_failed :
         i \in {parse_skip(s, from)}})

\* JSON.parse(text): ok is FALSE when it throws.
JSON_parse(text) ==
    The({IF value.ok /\ parse_skip(text, value.pos) > Len(text)
         THEN [ok |-> TRUE, val |-> value.val]
         ELSE [ok |-> FALSE, val |-> JUndefined] :
         value \in {parse_value(text, 1)}})

---------------------------------------------------------------------------
(* The response bodies the server sends *)

\* 'data: ' (main.js 1135, 1723)
Chars_data == <<"d", "a", "t", "a", ":", " ">>

\* '[DONE]' (main.js 1138)
Chars_DONE == <<"[", "D", "O", "N", "E", "]">>

\* What a line of the body carries: the events of a run as the handlers
\* name them, namely
\*   RunStarted   {"event":"RunStarted"}
\*   Hel          {"event":"RunResponse","content":"Hel"}
\*   lo           {"event":"RunResponse","content":"lo"}
\*   RunCompleted {"event":"RunCompleted"}
\*   Goodbye      {"event":"RunCompleted","content":"Goodbye"}
\*   error        {"event":"error","error":"boom"}
\*   RunError     {"event":"RunError","error":"boom"}
\*   keepalive    {"event":"keepalive"}
\*   unknown      {"event":"ToolCallStarted"}
\*   lowercase    {"event":"runresponse","content":"lo"}
\*   content      {"event":"content","content":"lo"}
\*   completed    {"event":"completed"}
\*   nestedOnly   {"event":"RunResponse","data":{"content":"lo"}}
\*   noContent    {"event":"RunResponse"}
\* and, for the framing, a payload with the text under data.content and
\* blanks around it (nested), one that is not JSON (truncated), and a
\* comment line.
Payload ==
    [RunStarted |->
        <<"{", "\"", "e", "v", "e", "n", "t", "\"", ":", "\"", "R", "u", "n", "S", "t", "a",
            "r", "t", "e", "d", "\"", "}">>,
     Hel |->
        <<"{", "\"", "e", "v", "e", "n", "t", "\"", ":", "\"", "R", "u", "n", "R", "e", "s",
            "p", "o", "n", "s", "e", "\"", ",", "\"", "c", "o", "n", "t", "e", "n", "t", "\"",
            ":", "\"", "H", "e", "l", "\"", "}">>,
     lo |->
        <<"{", "\"", "e", "v", "e", "n", "t", "\"", ":", "\"", "R", "u", "n", "R", "e", "s",
            "p", "o", "n", "s", "e", "\"", ",", "\"", "c", "o", "n", "t", "e", "n", "t", "\"",
            ":", "\"", "l", "o", "\"", "}">>,
     RunCompleted |->
        <<"{", "\"", "e", "v", "e", "n", "t", "\"", ":", "\"", "R", "u", "n", "C", "o", "m",
            "p", "l", "e", "t", "e", "d", "\"", "}">>,
     Goodbye |->
        <<"{", "\"", "e", "v", "e", "n", "t", "\"", ":", "\"", "R", "u", "n", "C", "o", "m",
            "p", "l", "e", "t", "e", "d", "\"", ",", "\"", "c", "o", "n", "t", "e", "n", "t",
            "\"", ":", "\"", "G", "o", "o", "d", "b", "y", "e", "\"", "}">>,
     error |->
        <<"{", "\"", "e", "v", "e", "n", "t", "\"", ":", "\"", "e", "r", "r", "o", "r", "\"",
            ",", "\"", "e", "r", "r", "o", "r", "\"", ":", "\"", "b", "o", "o", "m", "\"", "}">>,
     RunError |->
        <<"{", "\"", "e", "v", "e", "n", "t", "\"", ":", "\"", "R", "u", "n", "E", "r", "r",
            "o", "r", "\"", ",", "\"", "e", "r", "r", "o", "r", "\"", ":", "\"", "b", "o", "o",
            "m", "\"", "}">>,
     nested |->
        <<" ", "{", "\"", "e", "v", "e", "n", "t", "\"", ":", "\"", "d", "e", "l", "t", "a",
            "\"", ",", "\"", "d", "a", "t", "a", "\"", ":", "{", "\"", "c", "o", "n", "t", "e",
            "n", "t", "\"", ":", "\"", "l", "o", "\"", "}", "}", "\r">>,
     truncated |->
        <<"{", "\"", "e", "v", "e", "n", "t", "\"", ":", "\"", "R", "u", "n", "R", "e", "s", "p">>,
     comment |->
        <<":", " ", "p", "i", "n", "g">>,
     keepalive |->
        <<"{", "\"", "e", "v", "e", "n", "t", "\"", ":", "\"", "k", "e", "e", "p", "a", "l", "i",
            "v", "e", "\"", "}">>,
     unknown |->
        <<"{", "\"", "e", "v", "e", "n", "t", "\"", ":", "\"", "T", "o", "o", "l", "C", "a", "l",
            "l", "S", "t", "a", "r", "t", "e", "d", "\"", "}">>,
     lowercase |->
        <<"{", "\"", "e", "v", "e", "n", "t", "\"", ":", "\"", "r", "u", "n", "r", "e", "s", "p",
            "o", "n", "s", "e", "\"", ",", "\"", "c", "o", "n", "t", "e", "n", "t", "\"", ":",
            "\"", "l", "o", "\"", "}">>,
     content |->
        <<"{", "\"", "e", "v", "e", "n", "t", "\"", ":", "\"", "c", "o", "n", "t", "e", "n", "t",
            "\"", ",", "\"", "c", "o", "n", "t", "e", "n", "t", "\"", ":", "\"", "l", "o", "\"",
            "}">>,
     completed |->
        <<"{", "\"", "e", "v", "e", "n", "t", "\"", ":", "\"", "c", "o", "m", "p", "l", "e", "t",
            "e", "d", "\"", "}">>,
     nestedOnly |->
        <<"{", "\"", "e", "v", "e", "n", "t", "\"", ":", "\"", "R", "u", "n", "R", "e", "s", "p",
            "o", "n", "s", "e", "\"", ",", "\"", "d", "a", "t", "a", "\"", ":", "{", "\"", "c",
            "o", "n", "t", "e", "n", "t", "\"", ":", "\"", "l", "o", "\"", "}", "}">>,
     noContent |->
        <<"{", "\"", "e", "v", "e", "n", "t", "\"", ":", "\"", "R", "u", "n", "R", "e", "s", "p",
            "o", "n", "s", "e", "\"", "}">>]

\* One server-sent line: data: <json>\n
DataLine(json) == Chars_data \o json \o <<"\n">>

\* The bodies:
\*   Hello    a run that completes without final content;
\*   Goodbye  a run whose completion carries the final content;
\*   Restart  events go on after the completion;
\*   Done     a run that completes and is followed by the end marker;
\*   Error    a run that fails, under both names of the error event, and goes on;
\*   Framing  a comment, a blank line, bare JSON, a payload that is not
\*            JSON, blanks around the payload, the end marker, and a last
\*            line without its newline;
\*   Events   keepalive and unknown events before, within and after a run
\*            and after a failed one, and the other names of the events;
\*   Partial  a run cut off after the payload of its second delta, before
\*            the newline of that line;
\*   Deltas   deltas with the text at the top, under data only, and nowhere.
Text ==
    [Hello |-> DataLine(Payload.RunStarted) \o DataLine(Payload.Hel) \o DataLine(Payload.lo)
                   \o DataLine(Payload.RunCompleted),
     Goodbye |-> DataLine(Payload.RunStarted) \o DataLine(Payload.Hel) \o DataLine(Payload.lo)
                     \o DataLine(Payload.Goodbye),
     Restart |-> DataLine(Payload.RunStarted) \o DataLine(Payload.Hel)
                     \o DataLine(Payload.RunCompleted) \o DataLine(Payload.RunStarted)
                     \o DataLine(Payload.lo),
     Done |-> DataLine(Payload.RunStarted) \o DataLine(Payload.Hel)
                  \o DataLine(Payload.RunCompleted) \o DataLine(Chars_DONE),
     Error |-> DataLine(Payload.RunStarted) \o DataLine(Payload.Hel) \o DataLine(Payload.error)
                   \o DataLine(Payload.RunError) \o DataLine(Payload.lo),
     Framing |-> Payload.comment \o <<"\n", "\n">> \o Payload.RunStarted \o <<"\n">>
                     \o DataLine(Payload.truncated) \o DataLine(Payload.nested)
                     \o DataLine(Chars_DONE) \o DataLine(Payload.lo)
                     \o Chars_data \o Payload.RunCompleted,
     Events |-> DataLine(Payload.keepalive) \o DataLine(Payload.unknown)
                    \o DataLine(Payload.RunStarted) \o DataLine(Payload.Hel)
                    \o DataLine(Payload.keepalive) \o DataLine(Payload.unknown)
                    \o DataLine(Payload.lowercase) \o DataLine(Payload.content)
                    \o DataLine(Payload.completed) \o DataLine(Payload.keepalive)
                    \o DataLine(Payload.unknown) \o DataLine(Payload.RunStarted)
                    \o DataLine(Payload.Hel) \o DataLine(Payload.error)
                    \o DataLine(Payload.RunError) \o DataLine(Payload.keepalive)
                    \o DataLine(Payload.unknown),
     Partial |-> DataLine(Payload.RunStarted) \o DataLine(Payload.Hel)
                     \o Chars_data \o Payload.lo,
     Deltas |-> DataLine(Payload.RunStarted) \o DataLine(Payload.Hel)
                    \o DataLine(Payload.nestedOnly) \o DataLine(Payload.noContent)
                    \o DataLine(Payload.RunCompleted)]

\* Where reader.read() may end a chunk: only after a line, or after any
\* character.
Cuts(text, where) ==
    IF where = "lines" THEN {i \in 1..Len(text) : text[i] = "\n"} \cup {Len(text)}
    ELSE 1..Len(text)

\* The bodies sent when several requests are under way: chunks end with a line.
LineFramed ==
    {[text |-> t, cuts |-> Cuts(t, "lines")] : t \in {Text.Hello, Text.Goodbye, Text.Restart}}

\* The bodies sent to a single request.
AnyFramed ==
    {[text |-> t, cuts |-> Cuts(t, "anywhere")] :
        t \in {Text.Hello, Text.Goodbye, Text.Restart, Text.Done, Text.Error, Text.Framing}}

\* The bodies read line by line: chunks end with a line, the last one with
\* the body.
EventFramed ==
    {[text |-> t, cuts |-> Cuts(t, "lines")] :
        t \in {Text.Events, Text.Error, Text.Partial, Text.Deltas}}

\* What the user types into the message input.
Messages == {<<"h", "i">>, <<" ">>}

\* GET /sessions as the server answers it while a chat is going on
\* (main.js 635-642).
ServerList == [sessions |-> <<"abc">>, pagination |-> [page |-> "1", pageSize |-> "50", total |-> "1"]]

\* How ChatManager.refreshSessionData ends (main.js 1063-1096): after
\* loadSessions, with getSession rejected (1094), or with getSessions
\* rejected, which loadSessions answers with renderError (655-658).
RefreshOutcomes == {"reloaded", "getSessionFailed", "getSessionsFailed"}

---------------------------------------------------------------------------
(* The chat container and the two event interpreters                       *)
(*                                                                         *)
(* A message element carries its data-message-id, the text of its          *)
(* .message-content (markup left out), whether the streaming cursor        *)
(* follows the text, and its 'streaming' and 'error' classes.              *)

Element(id, role, text, cursor, streaming) ==
    [id |-> id, role |-> role, text |-> text, cursor |-> cursor,
     streaming |-> streaming, error |-> FALSE]

\* document.querySelector('[data-message-id="id"]'): the first match, 0 for null.
querySelector(dom, id) ==
    IF \E i \in DOMAIN dom : dom[i].id = id
    THEN CHOOSE i \in DOMAIN dom : dom[i].id = id /\ \A j \in 1..(i - 1) : dom[j].id # id
    ELSE 0

\* SessionManager.formatMessageContent (main.js 897-910) of a string or
\* null: '' for a falsy content, the rendering of the content otherwise.
SessionManager_formatMessageContent(content) ==
    IF content \in {Null, Undefined, ""} THEN "" ELSE content

\* formatMessageContent of the function-style code (main.js 2080-2081).
formatMessageContent(content) == IF Truthy(content) THEN StringOf(content) ELSE ""

\* ChatManager.showStreamingError (main.js 1236-1248)
ChatManager_showStreamingError(ui, messageId, errorMessage) ==
    LET i == querySelector(ui.chat, messageId)
    IN  IF i = 0 THEN ui
        ELSE [ui EXCEPT !.chat[i].text = "Error: " \o errorMessage,
                        !.chat[i].cursor = FALSE,
                        !.chat[i].streaming = FALSE,
                        !.chat[i].error = TRUE,
                        !.csm = Null]

\* A variant of ChatManager_completeStreamingMessage that leaves the
\* streaming class on the message.
ChatManager_completeStreamingMessage_keepsClass(ui, messageId) ==
    LET i == querySelector(ui.chat, messageId)
    IN  IF i = 0 THEN [ui EXCEPT !.awaits = FALSE]
        ELSE [ui EXCEPT !.chat[i].text = SessionManager_formatMessageContent(
                                             IF ui.csm \in {Null, ""} THEN "" ELSE ui.csm),
                        !.chat[i].cursor = FALSE,
                        !.csm = Null,
                        !.awaits = TRUE]

\* ChatManager.completeStreamingMessage (main.js 1204-1234) up to its await
\* of refreshSessionData; awaits tells whether it got there.
ChatManager_completeStreamingMessage(ui, messageId) ==
    LET i == querySelector(ui.chat, messageId)
    IN  IF i = 0 THEN [ui EXCEPT !.awaits = FALSE]
        ELSE [ui EXCEPT !.chat[i].text = SessionManager_formatMessageContent(
                                             IF ui.csm \in {Null, ""} THEN "" ELSE ui.csm),
                        !.chat[i].cursor = FALSE,
                        !.chat[i].streaming = FALSE,
                        !.csm = Null,
                        !.awaits = TRUE]

\* A variant of ChatManager_handleStreamingEvent whose default case shows an error.
ChatManager_handleStreamingEvent_defaultFails(ui, messageId, eventData) ==
    LET i == querySelector(ui.chat, messageId)
        event == Prop(eventData, "event")
        newContent == OrValue(OrValue(Prop(eventData, "content"),
                                      Prop(Prop(eventData, "data"), "content")),
                              JString(""))
        appended == (IF ui.csm \in {Null, ""} THEN "" ELSE ui.csm) \o StringOf(newContent)
        errorMessage == OrValue(OrValue(Prop(eventData, "error"), Prop(eventData, "message")),
                                JString("Unknown error"))
    IN  IF i = 0 THEN ui
        ELSE IF StrictEquals(event, "RunStarted")
        THEN [ui EXCEPT !.csm = "", !.chat[i].text = "", !.chat[i].cursor = TRUE]
        ELSE IF \E name \in {"RunResponse", "content", "delta"} : StrictEquals(event, name)
        THEN IF Truthy(newContent)
             THEN [ui EXCEPT !.csm = appended,
                             !.chat[i].text = SessionManager_formatMessageContent(appended),
                             !.chat[i].cursor = TRUE]
             ELSE ui
        ELSE IF \E name \in {"completed", "RunCompleted"} : StrictEquals(event, name)
        THEN ChatManager_completeStreamingMessage(ui, messageId)
        ELSE IF StrictEquals(event, "error")
        THEN ChatManager_showStreamingError(ui, messageId, StringOf(errorMessage))
        ELSE ChatManager_showStreamingError(ui, messageId, "Unknown event")

\* ChatManager.handleStreamingEvent (main.js 1158-1202)
ChatManager_handleStreamingEvent(ui, messageId, eventData) ==
    LET i == querySelector(ui.chat, messageId)
        event == Prop(eventData, "event")
        newContent == OrValue(OrValue(Prop(eventData, "content"),
                                      Prop(Prop(eventData, "data"), "content")),
                              JString(""))
        appended == (IF ui.csm \in {Null, ""} THEN "" ELSE ui.csm) \o StringOf(newContent)
        errorMessage == OrValue(OrValue(Prop(eventData, "error"), Prop(eventData, "message")),
                                JString("Unknown error"))
    IN  IF i = 0 THEN ui
        ELSE IF StrictEquals(event, "RunStarted")
        THEN [ui EXCEPT !.csm = "", !.chat[i].text = "", !.chat[i].cursor = TRUE]
        ELSE IF \E name \in {"RunResponse", "content", "delta"} : StrictEquals(event, name)
        THEN IF Truthy(newContent)
             THEN [ui EXCEPT !.csm = appended,
                             !.chat[i].text = SessionManager_formatMessageContent(appended),
                             !.chat[i].cursor = TRUE]
             ELSE ui
        ELSE IF \E name \in {"completed", "RunCompleted"} : StrictEquals(event, name)
        THEN ChatManager_completeStreamingMessage(ui, messageId)
        ELSE IF StrictEquals(event, "error")
        THEN ChatManager_showStreamingError(ui, messageId, StringOf(errorMessage))
        ELSE ui

\* A variant of ChatManager_decodeLine in which a payload that does not
\* parse ends the stream.
ChatManager_decodeLine_parseErrorEnds(line) ==
    IF ~startsWith(line, Chars_data) THEN [kind |-> "skip", event |-> JUndefined]
    ELSE IF slice(line, 6) = Chars_DONE THEN [kind |-> "done", event |-> JUndefined]
    ELSE The({IF parsed.ok THEN [kind |-> "event", event |-> parsed.val]
              ELSE [kind |-> "done", event |-> JUndefined] :
              parsed \in {JSON_parse(slice(line, 6))}})

\* What one line of a chunk is to ChatManager.handleStreamingResponse
\* (main.js 1135-1149): nothing without the prefix 'data: ', the end marker,
\* an event, or nothing again when JSON.parse throws (1146-1148).
ChatManager_decodeLine(line) ==
    IF ~startsWith(line, Chars_data) THEN [kind |-> "skip", event |-> JUndefined]
    ELSE IF slice(line, 6) = Chars_DONE THEN [kind |-> "done", event |-> JUndefined]
    ELSE The({IF parsed.ok THEN [kind |-> "event", event |-> parsed.val]
              ELSE [kind |-> "skip", event |-> JUndefined] :
              parsed \in {JSON_parse(slice(line, 6))}})

\* The for loop of ChatManager.handleStreamingResponse (main.js 1134-1150)
\* over the lines left of a chunk, up to the next point where the handler
\* waits: pc is "read" (back at reader.read()), "await" (inside
\* completeStreamingMessage, pending holds the lines still to do),
\* "awaitReturn" (the same on [DONE], the handler returns afterwards) or
\* "finalRefresh" (it returned without waiting).  events collects what was
\* handed to handleStreamingEvent.
RECURSIVE ChatManager_forLines(_, _, _)
ChatManager_forLines(ui, messageId, lines) ==
    IF lines = << >>
    THEN [chat |-> ui.chat, csm |-> ui.csm, events |-> ui.events, pending |-> << >>,
          pc |-> "read"]
    ELSE The({
        IF decoded.kind = "skip" THEN ChatManager_forLines(ui, messageId, Tail(lines))
        ELSE IF decoded.kind = "done"
        THEN The({[chat |-> completed.chat, csm |-> completed.csm, events |-> ui.events,
                   pending |-> << >>,
                   pc |-> IF completed.awaits THEN "awaitReturn" ELSE "finalRefresh"] :
                  completed \in {ChatManager_completeStreamingMessage(ui, messageId)}})
        ELSE The({IF handled.awaits
                  THEN [chat |-> handled.chat, csm |-> handled.csm,
                        events |-> handled.events, pending |-> Tail(lines), pc |-> "await"]
                  ELSE ChatManager_forLines(handled, messageId, Tail(lines)) :
                  handled \in {ChatManager_handleStreamingEvent(
                                  [ui EXCEPT !.awaits = FALSE,
                                             !.events = Append(@, decoded.event)],
                                  messageId, decoded.event)}}) :
        decoded \in {ChatManager_decodeLine(Head(lines))}})

\* let currentStreamingMessage = null (main.js 1700)
NoMessage == [isNull |-> TRUE, id |-> "", content |-> JUndefined]

\* updateStreamingMessageContent (main.js 1794-1800)
updateStreamingMessageContent(dom, message) ==
    LET i == querySelector(dom, message.id)
    IN  IF i = 0 THEN dom
        ELSE [dom EXCEPT ![i].text = formatMessageContent(message.content), ![i].cursor = TRUE]

\* completeStreamingMessageFinal (main.js 1805-1815)
completeStreamingMessageFinal(dom, message) ==
    LET i == querySelector(dom, message.id)
    IN  IF i = 0 THEN dom
        ELSE [dom EXCEPT ![i].text = formatMessageContent(message.content),
                         ![i].cursor = FALSE, ![i].streaming = FALSE]

\* showStreamingError (main.js 1820-1830)
showStreamingError(dom, message, error) ==
    LET i == querySelector(dom, message.id)
    IN  IF i = 0 THEN dom
        ELSE [dom EXCEPT ![i].text = "Error: " \o StringOf(error),
                         ![i].cursor = FALSE, ![i].streaming = FALSE, ![i].error = TRUE]

\* The switch of handleStreamingResponse (main.js 1737-1777); run holds the
\* chat container, the local currentStreamingMessage and the ids of the
\* messages this call has created, newId is the id a RunStarted would use.
handleStreamingResponse_switch(run, eventData, newId) ==
    LET event == Prop(eventData, "event")
        started == [isNull |-> FALSE, id |-> newId, content |-> JString("")]
        grown == [run.message EXCEPT
                    !.content = JString(StringOf(@) \o StringOf(Prop(eventData, "content")))]
        final == [run.message EXCEPT !.content = Prop(eventData, "content")]
    IN  IF StrictEquals(event, "RunStarted")
        THEN [run EXCEPT !.message = started,
                         !.chat = Append(@, Element(newId, "assistant", "", TRUE, TRUE)),
                         !.created = Append(@, newId)]
        ELSE IF StrictEquals(event, "RunResponse")
        THEN IF run.message.isNull THEN run
             ELSE [run EXCEPT !.message = grown,
                              !.chat = updateStreamingMessageContent(@, grown)]
        ELSE IF StrictEquals(event, "RunCompleted")
        THEN IF run.message.isNull THEN run
             ELSE [run EXCEPT !.message = NoMessage,
                              !.chat = completeStreamingMessageFinal(@, final)]
        ELSE IF StrictEquals(event, "RunError")
        THEN IF run.message.isNull THEN run
             ELSE [run EXCEPT !.message = NoMessage,
                              !.chat = showStreamingError(@, run.message,
                                                          Prop(eventData, "error"))]
        ELSE run

\* What one complete line is to handleStreamingResponse (main.js 1719-1733,
\* 1779-1781): nothing when blank, an event after 'data: ' or when the line
\* opens with a brace, nothing for other lines and when JSON.parse throws.
handleStreamingResponse_decodeLine(line) ==
    IF ~trim_truthy(line) THEN [kind |-> "skip", event |-> JUndefined]
    ELSE IF ~startsWith(line, Chars_data) /\ ~startsWith(line, <<"{">>)
    THEN [kind |-> "skip", event |-> JUndefined]
    ELSE The({IF parsed.ok THEN [kind |-> "event", event |-> parsed.val]
              ELSE [kind |-> "skip", event |-> JUndefined] :
              parsed \in {JSON_parse(IF startsWith(line, Chars_data) THEN slice(line, 6)
                                     ELSE line)}})

\* The for loop of handleStreamingResponse (main.js 1718-1782) over the
\* complete lines; idPrefix makes the ids of this call's messages.
RECURSIVE handleStreamingResponse_forLines(_, _, _)
handleStreamingResponse_forLines(run, lines, idPrefix) ==
    IF lines = << >> THEN run
    ELSE The({
        IF decoded.kind = "skip"
        THEN handleStreamingResponse_forLines(run, Tail(lines), idPrefix)
        ELSE handleStreamingResponse_forLines(
                 handleStreamingResponse_switch(
                     [run EXCEPT !.events = Append(@, decoded.event)], decoded.event,
                     idPrefix \o IndexName[Len(run.created) + 1]),
                 Tail(lines), idPrefix) :
        decoded \in {handleStreamingResponse_decodeLine(Head(lines))}})

---------------------------------------------------------------------------
(* Sending a message and reading the response stream *)

MaxStreams == 2
MaxLoads == 2

\* The sessions the user opens from the list while a chat is going on.
LoadedSessions == {"s2"}

\* The conversation_turns of the session document getSession returns for a session.
SessionDocument(sessionId) ==
    TurnArray(<<[number |-> 1,
                 u |-> Present([content |-> "question in " \o sessionId,
                                timestamp |-> "1970-01-01T00:00:00.100Z"]),
                 rs |-> Present(<<[final_content |-> "final", content |-> "raw",
                                   timestamp |-> "1970-01-01T00:00:00.101Z"]>>)]>>)

\* SessionManager.renderConversationHistory (main.js 833-835): one element
\* per message extractMessages returns.
renderConversationHistory_elements(turns) ==
    The({[i \in 1..Len(messages) |->
             Element(messages[i].id, messages[i].role,
                     SessionManager_formatMessageContent(messages[i].content), FALSE, FALSE)] :
         messages \in {SessionManager_extractMessages(turns)}})

\* The handler of one sendMessage call.  pc is where it waits: "fetch" for
\* the response, "read" for reader.read(), "await", "awaitReturn" and
\* "finalRefresh" for refreshSessionData, "done" when it has returned.
\* events, created and readFailed record what it did: the events handed to
\* the interpreter, the ids of the elements it added, a rejected read.
\* sessionId is the session_id of the request, request the JSON document
\* that was posted.
NewStream(impl, sessionId, request) ==
    [impl |-> impl, sessionId |-> sessionId, request |-> request,
     pc |-> "fetch", pos |-> 0, buffer |-> << >>, pending |-> << >>,
     messageId |-> "", message |-> NoMessage, events |-> << >>, created |-> << >>,
     readFailed |-> FALSE]

\* messageText.trim()
RECURSIVE trim(_)
trim(text) ==
    IF text = << >> THEN text
    ELSE IF Head(text) \in Whitespace THEN trim(Tail(text))
    ELSE IF text[Len(text)] \in Whitespace THEN trim(SubSeq(text, 1, Len(text) - 1))
    ELSE text

\* JSON.stringify(requestData) of APIClient.sendMessage (main.js 592-608):
\* config_override is there when getConfigOverride did not return null.
APIClient_sendMessage_body(sessionId, message, configOverride) ==
    [session_id |-> sessionId, message |-> String(message), stream |-> "true"]
    @@ (IF configOverride.isNull THEN EmptyObj
        ELSE "config_override" :> JSON_object(configOverride.value))

\* The body sendMessage of the function-style code posts (main.js 1662-1666).
sendMessage_body(sessionId, messageText) ==
    [session_id |-> sessionId, message |-> String(trim(messageText)), stream |-> "true"]

\* ChatManager.sendMessage (main.js 1030-1047) up to the await of
\* apiClient.sendMessage, which reads the config override (592-603).
ChatManager_sendMessage(message) ==
    /\ appPc = "running"
    /\ Len(streams) < Len(network)
    /\ IF appState.currentSessionId \in Falsy \/ ~trim_truthy(message)
       THEN UNCHANGED vars
       ELSE /\ chat' = Append(chat, Element("user-" \o IndexName[Len(streams) + 1], "user",
                                            String(message), FALSE, FALSE))
            /\ lastOverride' = [called |-> TRUE, config |-> appState.aiConfig,
                                result |-> getConfigOverride_result(appState.aiConfig)]
            /\ streams' = Append(streams,
                                  NewStream("ChatManager", appState.currentSessionId,
                                            APIClient_sendMessage_body(
                                                appState.currentSessionId, message,
                                                getConfigOverride_result(appState.aiConfig))))
            /\ UNCHANGED <<appState, localStorage, appPc, normVars, network, currentSessionId, sessionLoads>>

\* sendMessage of the function-style code (main.js 1639-1667) up to the await of fetch.
sendMessage(messageText) ==
    /\ Len(streams) < Len(network)
    /\ IF currentSessionId \in Falsy \/ ~trim_truthy(messageText)
       THEN UNCHANGED vars
       ELSE /\ chat' = Append(chat, Element("msg-" \o IndexName[Len(streams) + 1], "user",
                                            String(trim(messageText)), FALSE, FALSE))
            /\ streams' = Append(streams,
                                  NewStream("legacy", currentSessionId,
                                            sendMessage_body(currentSessionId, messageText)))
            /\ UNCHANGED <<stateVars, normVars, network, currentSessionId, sessionLoads>>

\* The response arrives: ChatManager.handleStreamingResponse adds the
\* assistant message and starts to read (main.js 1110-1123).
ChatManager_handleStreamingResponse(s) ==
    /\ s \in DOMAIN streams
    /\ streams[s].impl = "ChatManager"
    /\ streams[s].pc = "fetch"
    /\ LET id == "assistant-" \o IndexName[s]
       IN  /\ chat' = Append(chat, Element(id, "assistant", "", FALSE, TRUE))
           /\ streams' = [streams EXCEPT ![s].pc = "read", ![s].messageId = id,
                                         ![s].created = <<id>>]
    /\ UNCHANGED <<stateVars, normVars, network, currentSessionId, sessionLoads>>

\* The response arrives: handleStreamingResponse starts to read (main.js 1696-1704).
handleStreamingResponse(s) ==
    /\ s \in DOMAIN streams
    /\ streams[s].impl = "legacy"
    /\ streams[s].pc = "fetch"
    /\ streams' = [streams EXCEPT ![s].pc = "read"]
    /\ UNCHANGED <<stateVars, normVars, network, chat, currentSessionId, sessionLoads>>

\* reader.read() gives the characters up to position n: one turn of the
\* while loop of ChatManager.handleStreamingResponse (main.js 1126-1151).
ChatManager_read(s, n) ==
    /\ s \in DOMAIN streams
    /\ streams[s].impl = "ChatManager"
    /\ streams[s].pc = "read"
    /\ n \in network[s].cuts
    /\ n > streams[s].pos
    /\ \E after \in {ChatManager_forLines(
                         [chat |-> chat, csm |-> appState.currentStreamingMessage,
                          awaits |-> FALSE, events |-> streams[s].events],
                         streams[s].messageId,
                         split(SubSeq(network[s].text, streams[s].pos + 1, n)))} :
          /\ appState' = [appState EXCEPT !.currentStreamingMessage = after.csm]
          /\ chat' = after.chat
          /\ streams' = [streams EXCEPT ![s].pos = n, ![s].events = after.events,
                                        ![s].pending = after.pending, ![s].pc = after.pc]
    /\ UNCHANGED <<localStorage, appPc, lastOverride, normVars, network, currentSessionId, sessionLoads>>

\* refreshSessionData comes back (main.js 1063-1096): the list of
\* loadSessions is in AppState, or renderError has replaced the chat
\* container because getSessions was rejected (655-658), or nothing
\* changed.  The handler goes on from where it waited: with the lines left
\* of the chunk (1134), out of handleStreamingResponse (1140), or out of
\* sendMessage (1054).
ChatManager_refreshSessionData(s, outcome) ==
    /\ s \in DOMAIN streams
    /\ streams[s].pc \in {"await", "awaitReturn", "finalRefresh"}
    /\ \E refreshed \in {IF outcome = "reloaded"
                          THEN [appState EXCEPT
                                  !.sessions = ServerList.sessions,
                                  !.pagination = Spread(@, ServerList.pagination)]
                          ELSE appState} :
       \E ui \in {[chat |-> IF outcome = "getSessionsFailed" THEN << >> ELSE chat,
                    csm |-> appState.currentStreamingMessage,
                    awaits |-> FALSE, events |-> streams[s].events]} :
       \E after \in {IF streams[s].pc = "await"
                      THEN ChatManager_forLines(ui, streams[s].messageId, streams[s].pending)
                      ELSE [chat |-> ui.chat, csm |-> ui.csm, events |-> ui.events,
                            pending |-> << >>,
                            pc |-> IF streams[s].pc = "awaitReturn" THEN "finalRefresh"
                                   ELSE "done"]} :
          /\ appState' = [refreshed EXCEPT !.currentStreamingMessage = after.csm]
          /\ localStorage' = IF outcome = "reloaded" THEN saveState(refreshed)
                             ELSE localStorage
          /\ chat' = after.chat
          /\ streams' = [streams EXCEPT ![s].events = after.events,
                                        ![s].pending = after.pending, ![s].pc = after.pc]
    /\ UNCHANGED <<appPc, lastOverride, normVars, network, currentSessionId, sessionLoads>>

\* reader.read() gives the characters up to position n: one turn of the
\* while loop of handleStreamingResponse (main.js 1703-1783).
handleStreamingResponse_read(s, n) ==
    /\ s \in DOMAIN streams
    /\ streams[s].impl = "legacy"
    /\ streams[s].pc = "read"
    /\ n \in network[s].cuts
    /\ n > streams[s].pos
    /\ \E lines \in {split(streams[s].buffer
                              \o SubSeq(network[s].text, streams[s].pos + 1, n))} :
       \E after \in {handleStreamingResponse_forLines(
                         [chat |-> chat, message |-> streams[s].message,
                          events |-> streams[s].events, created |-> streams[s].created],
                         SubSeq(lines, 1, Len(lines) - 1),
                         "stream-" \o IndexName[s] \o "-")} :
          /\ chat' = after.chat
          /\ streams' = [streams EXCEPT ![s].pos = n, ![s].buffer = lines[Len(lines)],
                                        ![s].message = after.message,
                                        ![s].events = after.events,
                                        ![s].created = after.created]
    /\ UNCHANGED <<stateVars, normVars, network, currentSessionId, sessionLoads>>

\* reader.read() reports the end of the body: both loops break (main.js 1129, 1706-1709).
read_done(s) ==
    /\ s \in DOMAIN streams
    /\ streams[s].pc = "read"
    /\ streams[s].pos = Len(network[s].text)
    /\ streams' = [streams EXCEPT
                     ![s].pc = IF streams[s].impl = "ChatManager" THEN "finalRefresh" ELSE "done"]
    /\ UNCHANGED <<stateVars, normVars, network, chat, currentSessionId, sessionLoads>>

\* reader.read() rejects: ChatManager shows the error in its message (main.js
\* 1152-1155), the function-style handler in a notification (1785-1788).
read_rejected(s) ==
    /\ s \in DOMAIN streams
    /\ streams[s].pc = "read"
    /\ LET shown == ChatManager_showStreamingError(
                        [chat |-> chat, csm |-> appState.currentStreamingMessage],
                        streams[s].messageId, "network error")
       IN  IF streams[s].impl = "ChatManager"
           THEN /\ chat' = shown.chat
                /\ appState' = [appState EXCEPT !.currentStreamingMessage = shown.csm]
                /\ streams' = [streams EXCEPT ![s].pc = "finalRefresh", ![s].readFailed = TRUE]
           ELSE /\ streams' = [streams EXCEPT ![s].pc = "done", ![s].readFailed = TRUE]
                /\ UNCHANGED <<chat, appState>>
    /\ UNCHANGED <<localStorage, appPc, lastOverride, normVars, network, currentSessionId, sessionLoads>>

\* SessionManager.loadSession (main.js 746-762) up to the await of
\* getSession: the session becomes the current one and the chat container
\* shows the loading state in place of its messages.
SessionManager_loadSession(sessionId) ==
    /\ appPc = "running"
    /\ Len(sessionLoads) < MaxLoads
    /\ appState' = [appState EXCEPT !.currentSessionId = sessionId]
    /\ localStorage' = saveState(appState')
    /\ chat' = << >>
    /\ sessionLoads' = Append(sessionLoads, [sessionId |-> sessionId, pc |-> "getSession"])
    /\ UNCHANGED <<appPc, lastOverride, normVars, network, streams, currentSessionId>>

\* getSession comes back to loadSession (main.js 762-777): the messages of
\* the session document replace the content of the chat container, or
\* renderError does when the request was rejected.
\* A variant of loadSession_getSession that deselects the session when the
\* request was rejected.
loadSession_getSession_deselects(k, outcome) ==
    /\ k \in DOMAIN sessionLoads
    /\ sessionLoads[k].pc = "getSession"
    /\ chat' = IF outcome = "resolved"
               THEN renderConversationHistory_elements(SessionDocument(sessionLoads[k].sessionId))
               ELSE << >>
    /\ sessionLoads' = [sessionLoads EXCEPT ![k].pc = IF outcome = "resolved" THEN "done"
                                                       ELSE "failed"]
    /\ appState' = IF outcome = "resolved" THEN appState
                   ELSE [appState EXCEPT !.currentSessionId = Null]
    /\ localStorage' = IF outcome = "resolved" THEN localStorage ELSE saveState(appState')
    /\ UNCHANGED <<appPc, lastOverride, normVars, network, streams, currentSessionId>>

\* getSession comes back to loadSession (main.js 762-777): the messages of
\* the session document replace the content of the chat container, or
\* renderError does when the request was rejected.  pc tells afterwards
\* whether the request was answered ("done") or rejected ("failed").
loadSession_getSession(k, outcome) ==
    /\ k \in DOMAIN sessionLoads
    /\ sessionLoads[k].pc = "getSession"
    /\ chat' = IF outcome = "resolved"
               THEN renderConversationHistory_elements(SessionDocument(sessionLoads[k].sessionId))
               ELSE << >>
    /\ sessionLoads' = [sessionLoads EXCEPT ![k].pc = IF outcome = "resolved" THEN "done"
                                                       ELSE "failed"]
    /\ UNCHANGED <<stateVars, normVars, network, streams, currentSessionId>>

\* A variant of SessionManager_loadSessions that opens the first session of
\* every list that is not empty.
SessionManager_loadSessions_alwaysOpens(listed, pagination, outcome) ==
    /\ appPc = "running"
    /\ UNCHANGED <<appPc, lastOverride, normVars, network, streams, currentSessionId>>
    /\ IF outcome = "rejected"
       THEN chat' = << >> /\ UNCHANGED <<appState, localStorage, sessionLoads>>
       ELSE \E listedState \in {[appState EXCEPT
                                    !.sessions = listed,
                                    !.pagination = Spread(appState.pagination, pagination)]} :
               IF listed # << >>
               THEN /\ Len(sessionLoads) < MaxLoads
                    /\ appState' = [listedState EXCEPT !.currentSessionId = listed[1]]
                    /\ localStorage' = saveState(appState')
                    /\ chat' = << >>
                    /\ sessionLoads' = Append(sessionLoads,
                                              [sessionId |-> listed[1], pc |-> "getSession"])
               ELSE /\ appState' = listedState
                    /\ localStorage' = saveState(appState')
                    /\ UNCHANGED <<chat, sessionLoads>>

\* getSessions comes back to SessionManager.loadSessions (main.js 635-661):
\* setSessions takes the list and the pagination of the response, and
\* when the list is not empty and no session is selected, loadSession is
\* called for the first one and runs up to its await of getSession
\* (746-762).  When the request was rejected renderError replaces the
\* content of the chat container (655-658, 918-927).
SessionManager_loadSessions(listed, pagination, outcome) ==
    /\ appPc = "running"
    /\ UNCHANGED <<appPc, lastOverride, normVars, network, streams, currentSessionId>>
    /\ IF outcome = "rejected"
       THEN chat' = << >> /\ UNCHANGED <<appState, localStorage, sessionLoads>>
       ELSE \E listedState \in {[appState EXCEPT
                                    !.sessions = listed,
                                    !.pagination = Spread(appState.pagination, pagination)]} :
               IF listed # << >> /\ appState.currentSessionId \in Falsy
               THEN /\ Len(sessionLoads) < MaxLoads
                    /\ appState' = [listedState EXCEPT !.currentSessionId = listed[1]]
                    /\ localStorage' = saveState(appState')
                    /\ chat' = << >>
                    /\ sessionLoads' = Append(sessionLoads,
                                              [sessionId |-> listed[1], pc |-> "getSession"])
               ELSE /\ appState' = listedState
                    /\ localStorage' = saveState(appState')
                    /\ UNCHANGED <<chat, sessionLoads>>

\* appState.sessions.filter(s => s.id !== sessionId) (main.js 994)
filter(sessions, sessionId) == SelectSeq(sessions, LAMBDA id : id # sessionId)

\* A variant of SessionManager_deleteSession that leaves the deleted session selected.
SessionManager_deleteSession_staysSelected(sessionId, outcome) ==
    /\ appPc = "running"
    /\ UNCHANGED <<appPc, lastOverride, normVars, network, streams, currentSessionId>>
    /\ IF outcome = "rejected"
       THEN UNCHANGED <<appState, localStorage, chat, sessionLoads>>
       ELSE /\ appState' = [appState EXCEPT !.sessions = filter(appState.sessions, sessionId)]
            /\ UNCHANGED <<localStorage, chat, sessionLoads>>

\* deleteSession of the API comes back to SessionManager.deleteSession
\* (main.js 991-1022): the session leaves appState.sessions; when it was
\* the current one setCurrentSession(null) is called, and then loadSession
\* for the first session left, which runs up to its await of getSession
\* (746-762), or the chat container is emptied when none is left.  When
\* the request was rejected only a notification is shown.
SessionManager_deleteSession(sessionId, outcome) ==
    /\ appPc = "running"
    /\ UNCHANGED <<appPc, lastOverride, normVars, network, streams, currentSessionId>>
    /\ IF outcome = "rejected"
       THEN UNCHANGED <<appState, localStorage, chat, sessionLoads>>
       ELSE \E remaining \in {filter(appState.sessions, sessionId)} :
               IF appState.currentSessionId # sessionId
               THEN /\ appState' = [appState EXCEPT !.sessions = remaining]
                    /\ UNCHANGED <<localStorage, chat, sessionLoads>>
               ELSE IF remaining # << >>
               THEN /\ Len(sessionLoads) < MaxLoads
                    /\ appState' = [appState EXCEPT !.sessions = remaining,
                                                    !.currentSessionId = remaining[1]]
                    /\ localStorage' = saveState(appState')
                    /\ chat' = << >>
                    /\ sessionLoads' = Append(sessionLoads,
                                              [sessionId |-> remaining[1], pc |-> "getSession"])
               ELSE /\ appState' = [appState EXCEPT !.sessions = remaining,
                                                    !.currentSessionId = Null]
                    /\ localStorage' = saveState(appState')
                    /\ chat' = << >>
                    /\ UNCHANGED sessionLoads

\* A session is loaded and nothing has been sent: initializeApp is over
\* (main.js 1423-1445), the function-style code has its session too.
SessionLoaded ==
    /\ appState = [AppState_constructor EXCEPT !.currentSessionId = "abc",
                                               !.sessions = ServerList.sessions,
                                               !.pagination = ServerList.pagination]
    /\ localStorage = saveState(appState)
    /\ appPc = "running"
    /\ lastOverride = NoOverrideYet
    /\ currentSessionId = "abc"
    /\ streams = << >>
    /\ chat = << >>
    /\ sessionLoads = << >>

\* Up to MaxStreams requests, answered in chunks that end with a line.
Init ==
    /\ NormIdle
    /\ SessionLoaded
    /\ network \in [1..MaxStreams -> LineFramed]

\* One request, answered in chunks that end anywhere.
InitStream ==
    /\ NormIdle
    /\ SessionLoaded
    /\ \E response \in AnyFramed : network = <<response>>

Next ==
    \/ \E message \in Messages : ChatManager_sendMessage(message)
    \/ \E message \in Messages : sendMessage(message)
    \/ \E s \in 1..Len(network) : ChatManager_handleStreamingResponse(s)
    \/ \E s \in 1..Len(network) : handleStreamingResponse(s)
    \/ \E s \in 1..Len(network) : \E n \in 1..Len(network[s].text) : ChatManager_read(s, n)
    \/ \E s \in 1..Len(network) : \E outcome \in RefreshOutcomes :
           ChatManager_refreshSessionData(s, outcome)
    \/ \E s \in 1..Len(network) : \E n \in 1..Len(network[s].text) :
           handleStreamingResponse_read(s, n)
    \/ \E s \in 1..Len(network) : read_done(s)
    \/ \E s \in 1..Len(network) : read_rejected(s)

Spec == Init /\ [][Next]_vars

SpecStream == InitStream /\ [][Next]_vars

\* One request, answered line by line.
InitEvents ==
    /\ NormIdle
    /\ SessionLoaded
    /\ \E response \in EventFramed : network = <<response>>

SpecEvents == InitEvents /\ [][Next]_vars

\* One request, answered in chunks that end with a line, while the user
\* opens other sessions from the list.
InitLeave ==
    /\ NormIdle
    /\ SessionLoaded
    /\ \E response \in LineFramed : network = <<response>>

NextLeave ==
    \/ Next
    \/ \E sessionId \in LoadedSessions : SessionManager_loadSession(sessionId)
    \/ \E k \in 1..MaxLoads : \E outcome \in {"resolved", "rejected"} :
           loadSession_getSession(k, outcome)

SpecLeave == InitLeave /\ [][NextLeave]_vars

\* The page has been opened on what an earlier visit stored: initializeApp
\* runs loadState and loadSessions (main.js 1427, 1442), then the user
\* opens and deletes sessions and the list is loaded again.
InitSessions == InitState

NextSessions ==
    \/ loadState
    \/ \E listed \in SessionLists, pagination \in ListPaginations,
          outcome \in {"resolved", "rejected"} :
           SessionManager_loadSessions(listed, pagination, outcome)
    \/ \E sessionId \in SessionIds : SessionManager_loadSession(sessionId)
    \/ \E k \in 1..MaxLoads : \E outcome \in {"resolved", "rejected"} :
           loadSession_getSession(k, outcome)
    \/ \E sessionId \in SessionIds : \E outcome \in {"resolved", "rejected"} :
           SessionManager_deleteSession(sessionId, outcome)

SpecSessions == InitSessions /\ [][NextSessions]_vars

\* One request, sent while the user saves configurations in the settings
\* dialog (ConfigManager.saveConfig, main.js 224-237).
NextSend ==
    \/ Next
    \/ \E cfg \in SavedConfigs : updateAiConfig(cfg)

SpecSend == InitLeave /\ [][NextSend]_vars

---------------------------------------------------------------------------
(* Claims about AppState *)

TrackedFields == {"model", "temperature", "max_tokens"}

\* The stored value is a document whose version is absent or not the current one.
MismatchedBlob(stored) ==
    /\ stored.kind = "json"
    /\ Get(stored.doc, "version") # saveState_version

\* C9: a loadState step that reads a stored document whose version is absent or
\* differs from the current one leaves aiConfig equal to the compiled defaults
\* (those of the constructor), currentSessionId equal to the stored
\* currentSessionId, and every stored pagination property equal to its stored value.
C9_MismatchedLoadResetsConfigOnly ==
    [][(appPc = "constructed" /\ appPc' = "running" /\ MismatchedBlob(localStorage)) =>
        /\ appState'.aiConfig = AppState_aiConfig
        /\ appState'.currentSessionId = Get(localStorage.doc, "currentSessionId")
        /\ \A k \in DOMAIN ObjectOrEmpty(localStorage.doc, "pagination") :
               appState'.pagination[k] = localStorage.doc["pagination"][k]]_vars

\* C9 witness: version "1.0", temperature 0.2, currentSessionId "abc" and page 3
\* are stored, and the load has left temperature 1.0, "abc" and page 3.
C9_Witness ==
    /\ appPc = "running"
    /\ localStorage.kind = "json"
    /\ Get(localStorage.doc, "version") = "1.0"
    /\ "aiConfig" \in DOMAIN localStorage.doc
    /\ Get(localStorage.doc["aiConfig"], "temperature") = "0.2"
    /\ Get(localStorage.doc, "currentSessionId") = "abc"
    /\ "pagination" \in DOMAIN localStorage.doc
    /\ localStorage.doc["pagination"] = [page |-> "3"]
    /\ appState.aiConfig.temperature = "1"
    /\ appState.currentSessionId = "abc"
    /\ appState.pagination.page = "3"

\* C10: getConfigOverride returns null exactly when model, temperature and
\* max_tokens all equal the compiled defaults; otherwise it returns an object
\* whose properties are exactly the tracked fields that differ, each with the
\* current value (so never streaming or show_tool_calls).
C10_OverrideIsDifferingSubset ==
    lastOverride.called =>
        LET cfg == lastOverride.config
            res == lastOverride.result
            differing == {k \in TrackedFields : cfg[k] # AppState_aiConfig[k]}
        IN /\ res.isNull <=> differing = {}
           /\ ~res.isNull =>
                /\ DOMAIN res.value = differing
                /\ \A k \in differing : res.value[k] = cfg[k]
                /\ DOMAIN res.value \cap {"streaming", "show_tool_calls"} = {}

\* C10 witness: a call that returned exactly {temperature: 0.2, max_tokens: 1000}
\* while the model was the default one.
C10_Witness ==
    /\ lastOverride.called
    /\ ~lastOverride.result.isNull
    /\ lastOverride.result.value = [temperature |-> "0.2", max_tokens |-> "1000"]
    /\ lastOverride.config.model = AppState_aiConfig.model

\* C11: when setCurrentSession, setSessions or updateAiConfig has returned, the
\* stored blob is a document with the current schema version whose
\* currentSessionId, pagination and aiConfig equal those of the AppState in
\* memory.
C11_PersistedEqualsMemory ==
    [][(appPc = "running" /\ appPc' = "running"
            /\ (appState' # appState \/ localStorage' # localStorage)) =>
        /\ localStorage'.kind = "json"
        /\ Get(localStorage'.doc, "version") = saveState_version
        /\ Get(localStorage'.doc, "currentSessionId") = appState'.currentSessionId
        /\ ObjectOrEmpty(localStorage'.doc, "pagination") = appState'.pagination
        /\ ObjectOrEmpty(localStorage'.doc, "aiConfig") = appState'.aiConfig]_vars

\* The stored value is a document with the current schema version.
MatchingBlob(stored) ==
    /\ stored.kind = "json"
    /\ Get(stored.doc, "version") = saveState_version

\* The compiled default configuration, written out.
CompiledAiConfig ==
    [model |-> "deepseek/deepseek-chat-v3-0324:free", temperature |-> "1",
     max_tokens |-> "5000", streaming |-> "true", show_tool_calls |-> "true"]

\* C21: a loadState step that reads a stored document with the current
\* schema version leaves an aiConfig that has, for every key of the stored
\* aiConfig, the stored value, and for every other key the compiled default.
C21_MatchingLoadMergesStoredConfig ==
    [][(appPc = "constructed" /\ appPc' = "running" /\ MatchingBlob(localStorage)) =>
        \E stored \in {ObjectOrEmpty(localStorage.doc, "aiConfig")} :
            /\ DOMAIN appState'.aiConfig = DOMAIN CompiledAiConfig \cup DOMAIN stored
            /\ \A k \in DOMAIN stored : appState'.aiConfig[k] = stored[k]
            /\ \A k \in DOMAIN CompiledAiConfig \ DOMAIN stored :
                   appState'.aiConfig[k] = CompiledAiConfig[k]]_vars

\* C21 witness: version "1.1" and only temperature 0.2 are stored, and the
\* load has left temperature 0.2 with the default model and max_tokens.
C21_Witness ==
    /\ appPc = "running"
    /\ MatchingBlob(localStorage)
    /\ "aiConfig" \in DOMAIN localStorage.doc
    /\ localStorage.doc["aiConfig"] = [temperature |-> "0.2"]
    /\ appState.aiConfig = [CompiledAiConfig EXCEPT !.temperature = "0.2"]

\* C22: a loadState step that finds nothing stored leaves currentSessionId
\* null, pagination {page 1, pageSize 50, total 0} and the default aiConfig
\* (loadState returns: the step ends with the application running).
C22_LoadOfNothingKeepsDefaults ==
    [][(appPc = "constructed" /\ appPc' = "running" /\ localStorage = NothingStored) =>
        /\ appState'.currentSessionId = Null
        /\ appState'.pagination = [page |-> "1", pageSize |-> "50", total |-> "0"]
        /\ appState'.aiConfig = CompiledAiConfig]_vars

\* C22 witness: the application runs, nothing is stored (nothing was saved
\* since the load) and the fields are the defaults.
C22_Witness ==
    /\ appPc = "running"
    /\ localStorage = NothingStored
    /\ appState.currentSessionId = Null
    /\ appState.pagination = [page |-> "1", pageSize |-> "50", total |-> "0"]
    /\ appState.aiConfig = CompiledAiConfig

\* C39: a step of updateAiConfig(partial) gives every key of partial its
\* value and leaves the other keys of aiConfig, currentSessionId,
\* pagination and sessions as they were; a step of setCurrentSession leaves
\* aiConfig, pagination and sessions; a step of setSessions sets sessions
\* and the pagination keys it is given and leaves the other pagination
\* keys, aiConfig and currentSessionId.
C39_MutatorsChangeOnlyTheirPart ==
    [][/\ \A cfg \in SavedConfigs \cup PartialConfigs :
             updateAiConfig(cfg) =>
                 /\ DOMAIN appState'.aiConfig = DOMAIN appState.aiConfig \cup DOMAIN cfg
                 /\ \A k \in DOMAIN cfg : appState'.aiConfig[k] = cfg[k]
                 /\ \A k \in DOMAIN appState.aiConfig \ DOMAIN cfg :
                        appState'.aiConfig[k] = appState.aiConfig[k]
                 /\ appState'.currentSessionId = appState.currentSessionId
                 /\ appState'.pagination = appState.pagination
                 /\ appState'.sessions = appState.sessions
       /\ \A id \in SessionIds \cup {Null} :
             setCurrentSession(id) =>
                 /\ appState'.currentSessionId = id
                 /\ appState'.aiConfig = appState.aiConfig
                 /\ appState'.pagination = appState.pagination
                 /\ appState'.sessions = appState.sessions
       /\ \A ss \in SessionLists : \A pg \in ListPaginations \cup PartialPaginations :
             setSessions(ss, pg) =>
                 /\ appState'.sessions = ss
                 /\ \A k \in DOMAIN pg : appState'.pagination[k] = pg[k]
                 /\ \A k \in DOMAIN appState.pagination \ DOMAIN pg :
                        appState'.pagination[k] = appState.pagination[k]
                 /\ appState'.aiConfig = appState.aiConfig
                 /\ appState'.currentSessionId = appState.currentSessionId]_vars

\* C39 witness: a partial update has changed the temperature of the stored
\* configuration (the only one with show_tool_calls false) and nothing
\* else of it, and a partial pagination has changed the page only.
C39_Witness ==
    /\ appPc = "running"
    /\ appState.aiConfig = [model |-> "openai/gpt-4o", temperature |-> "0.2",
                            max_tokens |-> "1000", streaming |-> "true",
                            show_tool_calls |-> "false"]
    /\ appState.pagination = [page |-> "2", pageSize |-> "50", total |-> "0"]
    /\ appState.currentSessionId = "s2"
    /\ localStorage = saveState(appState)

\* C33: for the state in memory at any moment of a running application,
\* saveState followed by loadState on a new AppState gives the same
\* currentSessionId, pagination and aiConfig, and a second loadState of
\* the same blob changes nothing.
C33_SaveLoadRoundTrip ==
    appPc = "running" =>
        \E loaded \in {loadState_result(AppState_constructor, saveState(appState))} :
            /\ loaded.currentSessionId = appState.currentSessionId
            /\ loaded.pagination = appState.pagination
            /\ loaded.aiConfig = appState.aiConfig
            /\ loadState_result(loaded, saveState(appState)) = loaded

---------------------------------------------------------------------------
(* Claims about the normalisers *)

\* The messages of a turn array in emission order (the user message of a turn,
\* then its responses in array order), each with its id, its time, its role
\* and whether the response is explicitly inactive.
DocumentTurn(turn) ==
    (IF "user_message" \in DOMAIN turn
     THEN << [id |-> turn["user_message"]["message_id"],
              time |-> Date_getTime(turn["user_message"]["timestamp"]),
              role |-> "user", inactive |-> FALSE] >>
     ELSE << >>)
    \o (IF "assistant_responses" \in DOMAIN turn
        THEN [i \in 1..Len(turn["assistant_responses"]) |->
                [id |-> turn["assistant_responses"][i]["message_id"],
                 time |-> Date_getTime(turn["assistant_responses"][i]["timestamp"]),
                 role |-> "assistant",
                 inactive |-> Get(turn["assistant_responses"][i], "is_active") = "false"]]
        ELSE << >>)

DocumentMessages(turns) == Flatten([i \in 1..Len(turns) |-> DocumentTurn(turns[i])])

RenderedIds == [i \in 1..Len(rendered) |-> rendered[i].id]

\* The index of the message `id` in the emission order of the document.
EmissionIndex(id) ==
    LET doc == DocumentMessages(history.turns)
    IN CHOOSE i \in 1..Len(doc) : doc[i].id = id

TimeOfId(id) == DocumentMessages(history.turns)[EmissionIndex(id)].time

\* C7 (as claimed): the normalised list holds exactly one message per
\* user_message and one per assistant response whose is_active is not false,
\* so its length is the number of user messages plus the number of responses
\* with is_active other than false.
C7_LengthCountsActiveResponses ==
    (renderedBy # "none" /\ history.kind = "turns") =>
        LET doc == DocumentMessages(history.turns)
            expected == {i \in 1..Len(doc) : ~doc[i].inactive}
        IN /\ Len(rendered) = Cardinality(expected)
           /\ \A i \in expected :
                Cardinality({j \in 1..Len(rendered) : rendered[j].id = doc[i].id}) = 1

\* C8 (as claimed): the rendered list is non-decreasing by timestamp, and
\* messages with equal timestamps are in emission order.
C8_RenderedSortedStable ==
    (renderedBy # "none" /\ history.kind = "turns") =>
        \A i, j \in 1..Len(rendered) :
            i < j =>
                /\ TimeOfId(rendered[i].id) <= TimeOfId(rendered[j].id)
                /\ TimeOfId(rendered[i].id) = TimeOfId(rendered[j].id)
                     => EmissionIndex(rendered[i].id) < EmissionIndex(rendered[j].id)

---------------------------------------------------------------------------
(* Claims about the response stream *)

\* The kinds of event of the streaming protocol, by the name an event carries.
IsRunStarted(eventData) == StrictEquals(Prop(eventData, "event"), "RunStarted")
IsDelta(eventData) ==
    \E name \in {"RunResponse", "content", "delta"} : StrictEquals(Prop(eventData, "event"), name)
IsCompleted(eventData) ==
    \E name \in {"RunCompleted", "completed"} : StrictEquals(Prop(eventData, "event"), name)
IsError(eventData) ==
    \E name \in {"error", "RunError"} : StrictEquals(Prop(eventData, "event"), name)

\* The handler of stream s has read its body to the end, or to the end marker.
ReadToEnd(s) == streams[s].pc \in {"awaitReturn", "finalRefresh", "done"} /\ ~streams[s].readFailed

\* The events handed on when the whole text arrives as one chunk: one
\* decode attempt per line of the text (the function-style handler keeps
\* the piece after the last newline back), up to the end marker.
DecodedLines(impl, text) ==
    IF impl = "ChatManager"
    THEN [i \in 1..Len(split(text)) |-> ChatManager_decodeLine(split(text)[i])]
    ELSE [i \in 1..(Len(split(text)) - 1) |->
              handleStreamingResponse_decodeLine(split(text)[i])]

UpToDone(decoded) ==
    IF \E i \in DOMAIN decoded : decoded[i].kind = "done"
    THEN SubSeq(decoded, 1, (CHOOSE i \in DOMAIN decoded :
                                /\ decoded[i].kind = "done"
                                /\ \A j \in 1..(i - 1) : decoded[j].kind # "done") - 1)
    ELSE decoded

RECURSIVE EventsOf(_)
EventsOf(decoded) ==
    IF decoded = << >> THEN << >>
    ELSE IF Head(decoded).kind = "event" THEN <<Head(decoded).event>> \o EventsOf(Tail(decoded))
    ELSE EventsOf(Tail(decoded))

SingleChunkEvents(impl, text) == EventsOf(UpToDone(DecodedLines(impl, text)))

\* C1: however the text of a response is cut into chunks, once it has been
\* read to the end the events handed to the event handler are those handed
\* on when the whole text arrives as a single chunk.
C1_ChunkBoundaryInvariance ==
    \A s \in DOMAIN streams :
        ReadToEnd(s) => streams[s].events = SingleChunkEvents(streams[s].impl, network[s].text)

\* The next delta of stream s would be written to the element with this id.
Receives(s, id) ==
    IF streams[s].impl = "ChatManager"
    THEN streams[s].messageId = id /\ streams[s].pc \in {"read", "await"}
    ELSE ~streams[s].message.isNull /\ streams[s].message.id = id /\ streams[s].pc = "read"

InFlight(i) == chat[i].streaming /\ \E s \in DOMAIN streams : Receives(s, chat[i].id)

\* C2: at most one message of the session carries the streaming flag and
\* can still receive deltas.
C2_AtMostOneInFlight == Cardinality({i \in DOMAIN chat : InFlight(i)}) <= 1

\* A run was started and then a Completed or an Error event was processed.
Terminal(events) ==
    \E i, j \in DOMAIN events :
        i < j /\ IsRunStarted(events[i]) /\ (IsCompleted(events[j]) \/ IsError(events[j]))

\* C3: when a stream that has processed a Completed or an Error event
\* processes further events, no message is created, no message changes its
\* content and no message gets the streaming flag again.
C3_PostTerminalEventsIgnored ==
    [][\A s \in DOMAIN streams :
          (Terminal(streams[s].events) /\ Len(streams'[s].events) > Len(streams[s].events))
              => \A j \in DOMAIN chat' : \E i \in DOMAIN chat :
                     /\ chat[i].id = chat'[j].id
                     /\ chat'[j].text = chat[i].text
                     /\ (chat'[j].streaming => chat[i].streaming)]_vars

\* The streaming flag of an assistant message has been removed, by
\* completion or by error.
Finalized(element) == element.role = "assistant" /\ ~element.streaming

\* C4: the content displayed for a finalized message never changes.
C4_FinalizedContentImmutable ==
    [][\A i \in DOMAIN chat : \A j \in DOMAIN chat' :
          (Finalized(chat[i]) /\ chat'[j].id = chat[i].id) => chat'[j].text = chat[i].text]_vars

\* The text a delta carries.
DeltaText(eventData) ==
    StringOf(OrValue(Prop(eventData, "content"), Prop(Prop(eventData, "data"), "content")))

RECURSIVE Concatenation(_)
Concatenation(deltas) ==
    IF deltas = << >> THEN "" ELSE DeltaText(Head(deltas)) \o Concatenation(Tail(deltas))

\* The events are RunStarted, deltas, and one Completed at the end.
OneRun(events) ==
    /\ Len(events) >= 2
    /\ IsRunStarted(events[1])
    /\ \A i \in 2..(Len(events) - 1) : IsDelta(events[i])
    /\ IsCompleted(events[Len(events)])

Deltas(events) == SubSeq(events, 2, Len(events) - 1)

\* The element of the first message of stream s, 0 when it is not in the chat.
FirstMessage(s) ==
    IF streams[s].created = << >> THEN 0 ELSE querySelector(chat, streams[s].created[1])

\* C5: after RunStarted, Delta(t1), ..., Delta(tn) and a Completed that
\* carries no content, the message is finalized with the content t1...tn.
C5_DeltasConcatenatedInOrder ==
    \A s \in DOMAIN streams :
        (/\ OneRun(streams[s].events)
         /\ ~Truthy(Prop(streams[s].events[Len(streams[s].events)], "content"))
         /\ ~streams[s].readFailed
         /\ FirstMessage(s) # 0)
            => /\ ~chat[FirstMessage(s)].streaming
               /\ chat[FirstMessage(s)].text = Concatenation(Deltas(streams[s].events))

\* C6: after RunStarted, deltas and a Completed that carries non-empty
\* final text, the message is finalized with that text.
C6_ExplicitFinalTextWins ==
    \A s \in DOMAIN streams :
        (/\ OneRun(streams[s].events)
         /\ Truthy(Prop(streams[s].events[Len(streams[s].events)], "content"))
         /\ ~streams[s].readFailed
         /\ FirstMessage(s) # 0)
            => /\ ~chat[FirstMessage(s)].streaming
               /\ chat[FirstMessage(s)].text =
                      StringOf(Prop(streams[s].events[Len(streams[s].events)], "content"))

\* The complete lines a read step of stream s goes through: those of the
\* chunk it was given (after the piece the function-style handler kept
\* back), each as the handler decodes it.
StepLines(s) ==
    The({IF streams[s].impl = "ChatManager" THEN split(chunk)
         ELSE The({SubSeq(lines, 1, Len(lines) - 1) :
                   lines \in {split(streams[s].buffer \o chunk)}}) :
         chunk \in {SubSeq(network[s].text, streams[s].pos + 1, streams'[s].pos)}})

StepDecoded(s) ==
    The({[i \in DOMAIN lines |->
             IF streams[s].impl = "ChatManager" THEN ChatManager_decodeLine(lines[i])
             ELSE handleStreamingResponse_decodeLine(lines[i])] :
         lines \in {StepLines(s)}})

ReadStep(s) == streams[s].pc = "read" /\ streams'[s].pos > streams[s].pos

\* The step completes or fails the stream and does nothing else: its lines
\* carry Completed events, Error events or the end marker.
OnlyFinishes(decoded) ==
    /\ \E i \in DOMAIN decoded : decoded[i].kind # "skip"
    /\ \A i \in DOMAIN decoded :
          \/ decoded[i].kind \in {"skip", "done"}
          \/ IsCompleted(decoded[i].event)
          \/ IsError(decoded[i].event)

\* C12: completing or failing a stream while no message is in flight changes
\* nothing in the chat: no message is added, no content and no flag changes
\* (so that completing or failing twice is the same as doing it once).
C12_FinishWithoutInFlightIsNoOp ==
    [][\A s \in DOMAIN streams :
          (/\ ReadStep(s)
           /\ ~\E i \in DOMAIN chat : InFlight(i)
           /\ OnlyFinishes(StepDecoded(s)))
              => chat' = chat]_vars

\* A line with the prefix 'data: ' whose payload is JSON, or is not.
WellFormed(line) == startsWith(line, Chars_data) /\ JSON_parse(slice(line, 6)).ok
Malformed(line) ==
    /\ startsWith(line, Chars_data)
    /\ slice(line, 6) # Chars_DONE
    /\ ~JSON_parse(slice(line, 6)).ok

\* The line is the end marker or carries a Completed event, with or without the prefix.
Finishes(line) ==
    \/ startsWith(line, Chars_data) /\ slice(line, 6) = Chars_DONE
    \/ \E parsed \in {JSON_parse(IF startsWith(line, Chars_data) THEN slice(line, 6) ELSE line)} :
           parsed.ok /\ IsCompleted(parsed.val)

\* The events a step of stream s has handed to its interpreter.
Appended(s) == SubSeq(streams'[s].events, Len(streams[s].events) + 1, Len(streams'[s].events))

\* C13: a read step whose chunk holds a line with a payload that is not JSON
\* (and no completion) leaves the handler reading, hands on the event of
\* every well-formed line of the chunk, and, when the chunk holds no event
\* at all, leaves every message as it was.
C13_MalformedLineSkipped ==
    [][\A s \in DOMAIN streams :
          (ReadStep(s) /\ \E lines \in {StepLines(s)} :
                /\ \E i \in DOMAIN lines : Malformed(lines[i])
                /\ \A i \in DOMAIN lines : ~Finishes(lines[i]))
              => /\ streams'[s].pc = "read"
                 /\ ~streams'[s].readFailed
                 /\ \A line \in {StepLines(s)[i] : i \in DOMAIN StepLines(s)} :
                        WellFormed(line) =>
                            \E j \in DOMAIN Appended(s) :
                                Appended(s)[j] = JSON_parse(slice(line, 6)).val
                 /\ Appended(s) = << >> =>
                        /\ chat' = chat
                        /\ appState'.currentStreamingMessage = appState.currentStreamingMessage
                        /\ streams'[s].message = streams[s].message]_vars

\* C13 witness: the body Framing has been read past its truncated payload
\* and the delta on the next line is in the message.
C13_Witness ==
    \E s \in DOMAIN streams :
        /\ network[s].text = Text.Framing
        /\ streams[s].pc = "read"
        /\ streams[s].events # << >>
        /\ streams[s].events[Len(streams[s].events)] = JSON_parse(Payload.nested).val
        /\ \E i \in DOMAIN chat : chat[i].role = "assistant" /\ chat[i].text = "lo"

\* The chunk of a read step starts at the start of a line and ends with a newline.
LineAligned(s) ==
    /\ streams[s].pos = 0 \/ network[s].text[streams[s].pos] = "\n"
    /\ network[s].text[streams'[s].pos] = "\n"

\* The decoding rules in their order: the events (one or none) a complete
\* line yields.
DecodingRules(line) ==
    IF startsWith(line, Chars_data)
    THEN The({IF parsed.ok THEN <<parsed.val>> ELSE << >> :
              parsed \in {JSON_parse(slice(line, 6))}})
    ELSE IF \E first \in {parse_skip(line, 1)} : first <= Len(line) /\ line[first] = "{"
    THEN The({IF parsed.ok THEN <<parsed.val>> ELSE << >> : parsed \in {JSON_parse(line)}})
    ELSE << >>

\* C14: a read step over complete lines (none of which completes the run)
\* hands to the interpreter exactly the events the decoding rules give for
\* its lines: the JSON after the prefix 'data: ', else the JSON of a line
\* that starts with a brace once trimmed, else nothing.
C14_LinesDecodedByRules ==
    [][\A s \in DOMAIN streams :
          (ReadStep(s) /\ LineAligned(s)
                /\ \A i \in DOMAIN StepLines(s) : ~Finishes(StepLines(s)[i]))
              => Appended(s) = Flatten([i \in DOMAIN StepLines(s) |->
                                           DecodingRules(StepLines(s)[i])])]_vars

\* A start arrives for stream s: the response of a new request makes
\* ChatManager add its message, or a read step hands on one RunStarted.
StartStep(s) ==
    \/ streams[s].pc = "fetch" /\ streams'[s].pc = "read" /\ Len(chat') > Len(chat)
    \/ ReadStep(s) /\ Len(Appended(s)) = 1 /\ IsRunStarted(Appended(s)[1])

\* C15: when a start arrives while a message is in flight, that message is
\* finalized with the content it has (streaming flag cleared, content
\* kept), and a new streaming message with empty content is added.
C15_StartFinalizesPrevious ==
    [][\A s \in DOMAIN streams :
          (StartStep(s) /\ \E i \in DOMAIN chat : InFlight(i))
              => /\ \A i \in DOMAIN chat :
                        InFlight(i) => /\ chat'[i].id = chat[i].id
                                       /\ ~chat'[i].streaming
                                       /\ chat'[i].text = chat[i].text
                 /\ Len(chat') = Len(chat) + 1
                 /\ chat'[Len(chat')].role = "assistant"
                 /\ chat'[Len(chat')].streaming
                 /\ chat'[Len(chat')].text = ""]_vars

\* The index of the first Completed or Error event, 0 when there is none.
FirstTerminal(events) ==
    IF \E j \in DOMAIN events : IsCompleted(events[j]) \/ IsError(events[j])
    THEN CHOOSE j \in DOMAIN events :
            /\ IsCompleted(events[j]) \/ IsError(events[j])
            /\ \A i \in 1..(j - 1) : ~(IsCompleted(events[i]) \/ IsError(events[i]))
    ELSE 0

\* The error text of an Error event, or the generic one.
ErrorText(eventData) ==
    StringOf(OrValue(OrValue(Prop(eventData, "error"), Prop(eventData, "message")),
                     JString("Unknown error")))

\* C16: once a stream has processed an Error event while its message was in
\* flight (after RunStarted, before any Completed), that message has lost
\* the streaming flag, is marked as errored and shows the error text of the
\* event, and stays so whatever the stream delivers afterwards.
C16_ErrorFinalizesAsErrored ==
    \A s \in DOMAIN streams :
        \A j \in {FirstTerminal(streams[s].events)} :
            (/\ j # 0
             /\ IsError(streams[s].events[j])
             /\ \E i \in 1..(j - 1) : IsRunStarted(streams[s].events[i])
             /\ FirstMessage(s) # 0)
                => /\ ~chat[FirstMessage(s)].streaming
                   /\ chat[FirstMessage(s)].error
                   /\ chat[FirstMessage(s)].text \in
                          {ErrorText(streams[s].events[j]),
                           "Error: " \o ErrorText(streams[s].events[j])}

\* C17: when a read of stream s is rejected, the message of s that was in
\* flight loses the streaming flag and is marked as errored, and the
\* handler reads no more of the body afterwards.
C17_ReadFailureFinalizes ==
    [][\A s \in DOMAIN streams :
          /\ (~streams[s].readFailed /\ streams'[s].readFailed)
                => /\ streams'[s].pc \in {"finalRefresh", "done"}
                   /\ \A i \in DOMAIN chat :
                          (chat[i].streaming /\ Receives(s, chat[i].id))
                              => ~chat'[i].streaming /\ chat'[i].error
          /\ streams[s].readFailed
                => /\ streams'[s].pos = streams[s].pos
                   /\ streams'[s].pc # "read"]_vars

\* The session on view is no longer the one stream s was requested for.
Abandoned(s) ==
    streams[s].sessionId #
        (IF streams[s].impl = "ChatManager" THEN appState.currentSessionId ELSE currentSessionId)

\* Nothing of stream s is left: no message of s carries the streaming flag
\* and no text is accumulated.
NothingInFlight(s) ==
    /\ \A i \in DOMAIN chat :
          chat[i].streaming => \A j \in DOMAIN streams[s].created : streams[s].created[j] # chat[i].id
    /\ streams[s].buffer = << >>
    /\ streams[s].message.isNull
    /\ streams[s].impl = "ChatManager" => appState.currentStreamingMessage \in {Null, ""}

\* C18: once the user has left the session a stream was requested for, the
\* handler of the stream consumes no further chunk, and no in-flight
\* message and no accumulated text of the stream remain.
C18_LeavingStopsStream ==
    [][\A s \in DOMAIN streams :
          Abandoned(s) => /\ NothingInFlight(s)
                          /\ streams'[s].pos = streams[s].pos]_vars

\* C19: a stream that has not processed RunStarted has no message with the
\* streaming flag, and a read step that hands on nothing but deltas while
\* no message is in flight changes no message and accumulates nothing.
C19_DeltaWithoutInFlightIsNoOp ==
    [][\A s \in DOMAIN streams :
          /\ (\A j \in DOMAIN streams[s].events : ~IsRunStarted(streams[s].events[j]))
                => \A i \in DOMAIN chat :
                       chat[i].streaming =>
                           \A j \in DOMAIN streams[s].created : streams[s].created[j] # chat[i].id
          /\ (/\ ReadStep(s)
              /\ Appended(s) # << >>
              /\ \A j \in DOMAIN Appended(s) : IsDelta(Appended(s)[j])
              /\ ~\E i \in DOMAIN chat : InFlight(i))
                => /\ chat' = chat
                   /\ appState'.currentStreamingMessage = appState.currentStreamingMessage
                   /\ streams'[s].message = streams[s].message]_vars

\* C20: a normaliser never throws, returns the empty list for a document
\* without conversation_turns, and otherwise returns one message for every
\* user_message and every assistant response of the document, whether or
\* not its content or metadata is there (no response of these documents is
\* marked inactive).
C20_SparseDocumentsNormalized ==
    renderedBy # "none" =>
        /\ thrown = "none"
        /\ Len(rendered) = Len(DocumentMessages(history.turns))
        /\ \A i \in 1..Len(DocumentMessages(history.turns)) :
               \E j \in 1..Len(rendered) : rendered[j].id = DocumentMessages(history.turns)[i].id

\* The names an event may carry, and name.toLowerCase() of each.
EventNames ==
    {"RunStarted", "runstarted", "RunResponse", "runresponse", "content", "delta",
     "RunCompleted", "completed", "error", "RunError", "keepalive", "ToolCallStarted"}

LowerCase(name) ==
    CASE name = "RunStarted" -> "runstarted"
      [] name = "RunResponse" -> "runresponse"
      [] name = "RunCompleted" -> "runcompleted"
      [] name = "RunError" -> "runerror"
      [] name = "ToolCallStarted" -> "toolcallstarted"
      [] OTHER -> name

\* The kind of an event by its name: the alias groups, compared without case.
EventKind(name) ==
    CASE LowerCase(name) = "runstarted" -> "Started"
      [] LowerCase(name) \in {"runresponse", "content", "delta"} -> "Delta"
      [] LowerCase(name) \in {"runcompleted", "completed"} -> "Completed"
      [] LowerCase(name) \in {"error", "runerror"} -> "Error"
      [] LowerCase(name) = "keepalive" -> "Keepalive"
      [] OTHER -> "Unknown"

NameOf(eventData) == StringOf(Prop(eventData, "event"))

\* The same event under another name.
Renamed(eventData, name) == JObject(("event" :> JString(name)) @@ eventData.obj)

\* A read step of stream s that hands exactly one event to the interpreter
\* and does not meet the end marker.
OneEventStep(s) ==
    /\ ReadStep(s)
    /\ Len(Appended(s)) = 1
    /\ \A i \in DOMAIN StepDecoded(s) : StepDecoded(s)[i].kind # "done"

\* The step of stream s leaves the chat and the accumulated message as the
\* interpreter of s leaves them when it is given eventData in the state
\* before the step.
TransitionOf(s, eventData) ==
    IF streams[s].impl = "ChatManager"
    THEN \E after \in {ChatManager_handleStreamingEvent(
                            [chat |-> chat, csm |-> appState.currentStreamingMessage,
                             awaits |-> FALSE, events |-> << >>],
                            streams[s].messageId, eventData)} :
             /\ chat' = after.chat
             /\ appState'.currentStreamingMessage = after.csm
    ELSE \E after \in {handleStreamingResponse_switch(
                            [chat |-> chat, message |-> streams[s].message,
                             events |-> << >>, created |-> streams[s].created],
                            eventData,
                            "stream-" \o IndexName[s] \o "-"
                                \o IndexName[Len(streams[s].created) + 1])} :
             /\ chat' = after.chat
             /\ streams'[s].message = after.message

\* C23: the transition an event causes depends on its kind only: a step
\* that processes one event leaves the state the interpreter reaches for
\* the same event under any other name of its kind (another alias, or
\* another spelling by case).
C23_AliasesCauseSameTransition ==
    [][\A s \in DOMAIN streams :
          OneEventStep(s) =>
              \A name \in EventNames :
                  EventKind(name) = EventKind(NameOf(Appended(s)[1]))
                      => TransitionOf(s, Renamed(Appended(s)[1], name))]_vars

\* C24: a read step that hands on nothing but Keepalive events and events
\* of unknown kind changes no message, no accumulated content and no
\* in-flight message, whatever the state of the run.
C24_KeepaliveAndUnknownChangeNothing ==
    [][\A s \in DOMAIN streams :
          (/\ ReadStep(s)
           /\ Appended(s) # << >>
           /\ \A j \in DOMAIN Appended(s) :
                  EventKind(NameOf(Appended(s)[j])) \in {"Keepalive", "Unknown"}
           /\ \A i \in DOMAIN StepDecoded(s) : StepDecoded(s)[i].kind # "done")
              => /\ chat' = chat
                 /\ appState'.currentStreamingMessage = appState.currentStreamingMessage
                 /\ streams'[s].message = streams[s].message
                 /\ streams'[s].pc = "read"]_vars

\* The state of the run of stream s when its j-th event arrived.
RunState(events, j) ==
    IF \A i \in 1..(j - 1) : EventKind(NameOf(events[i])) \in {"Keepalive", "Unknown"}
    THEN "Idle"
    ELSE The({IF EventKind(NameOf(events[last])) = "Started" THEN "Streaming"
              ELSE IF EventKind(NameOf(events[last])) = "Delta" THEN "Streaming"
              ELSE IF EventKind(NameOf(events[last])) = "Completed" THEN "Completed"
              ELSE "Errored" :
              last \in {CHOOSE i \in 1..(j - 1) :
                           /\ EventKind(NameOf(events[i])) \notin {"Keepalive", "Unknown"}
                           /\ \A k \in (i + 1)..(j - 1) :
                                  EventKind(NameOf(events[k])) \in {"Keepalive", "Unknown"}}})

\* C24 witness: both interpreters have been handed a Keepalive event and an
\* event of unknown kind in each of the states Idle, Streaming, Completed
\* and Errored, by the end of the body Events.
C24_Witness ==
    \E s \in DOMAIN streams :
        /\ network[s].text = Text.Events
        /\ streams[s].pos = Len(Text.Events)
        /\ \A state \in {"Idle", "Streaming", "Completed", "Errored"} :
              \A kind \in {"Keepalive", "Unknown"} :
                  \E j \in DOMAIN streams[s].events :
                      /\ EventKind(NameOf(streams[s].events[j])) = kind
                      /\ RunState(streams[s].events, j) = state
        /\ \E i \in DOMAIN chat : chat[i].role = "assistant" /\ chat[i].error

\* The read step of stream s is given, as the last chunk of the body, the
\* text after the last newline: a line that its newline never follows.
TrailingPieceStep(s) ==
    /\ ReadStep(s)
    /\ streams'[s].pos = Len(network[s].text)
    /\ streams[s].pos = 0 \/ network[s].text[streams[s].pos] = "\n"
    /\ \A i \in (streams[s].pos + 1)..Len(network[s].text) : network[s].text[i] # "\n"

\* C25: the text left after the last newline of a body yields no event and
\* changes no message when it arrives, and the end of the stream that
\* follows fails no read and marks no message as errored.
C25_TrailingPartialLineDiscarded ==
    [][\A s \in DOMAIN streams :
          /\ TrailingPieceStep(s)
                => /\ Appended(s) = << >>
                   /\ chat' = chat
                   /\ appState'.currentStreamingMessage = appState.currentStreamingMessage
                   /\ streams'[s].message = streams[s].message
          /\ (/\ streams[s].pc = "read"
              /\ streams[s].pos = Len(network[s].text)
              /\ network[s].text[Len(network[s].text)] # "\n"
              /\ streams'[s].pc # "read"
              /\ ~streams'[s].readFailed)
                => \A i \in DOMAIN chat' :
                       chat'[i].error => \E j \in DOMAIN chat : chat[j].id = chat'[i].id /\ chat[j].error]_vars

\* The index in the turn array of the turn that holds the message `id`.
TurnIndexOfId(id) ==
    CHOOSE t \in 1..Len(history.turns) :
        \E k \in DOMAIN DocumentTurn(history.turns[t]) : DocumentTurn(history.turns[t])[k].id = id

TurnNumberOfId(id) == history.turns[TurnIndexOfId(id)]["turn_number"]

\* C26: of two rendered messages with equal timestamps, the one of the
\* lower turn_number comes first, and within one turn the user message
\* comes before the responses and the responses are in array order,
\* wherever the turns stand in the turns array.
C26_TiesOrderedByTurnNumber ==
    (renderedBy # "none" /\ thrown = "none" /\ history.kind = "turns") =>
        \A i, j \in 1..Len(rendered) :
            (i < j /\ TimeOfId(rendered[i].id) = TimeOfId(rendered[j].id)) =>
                /\ TurnNumberOfId(rendered[i].id) <= TurnNumberOfId(rendered[j].id)
                /\ TurnIndexOfId(rendered[i].id) = TurnIndexOfId(rendered[j].id)
                     => EmissionIndex(rendered[i].id) < EmissionIndex(rendered[j].id)

\* C27: the request a send posts carries config_override exactly when the
\* aiConfig of that moment differs from the compiled defaults in model,
\* temperature or max_tokens, and the field then holds exactly the
\* differing fields with their current values.
C27_OverrideSentIffDiffers ==
    [][Len(streams') > Len(streams) =>
          \E request \in {streams'[Len(streams')].request} :
          \E differing \in {{k \in TrackedFields : appState.aiConfig[k] # AppState_aiConfig[k]}} :
              /\ "config_override" \in DOMAIN request <=> differing # {}
              /\ differing # {} =>
                     request["config_override"] = [k \in differing |-> appState.aiConfig[k]]]_vars

\* The text of a delta: content when it is there and not empty, else
\* data.content when it is there and not empty, else nothing.
ExtractedText(eventData) ==
    IF Truthy(Prop(eventData, "content")) THEN StringOf(Prop(eventData, "content"))
    ELSE IF Truthy(Prop(Prop(eventData, "data"), "content"))
    THEN StringOf(Prop(Prop(eventData, "data"), "content"))
    ELSE ""

\* C28: a step that processes one RunResponse event while a message of the
\* stream is in flight leaves that message with its text followed by the
\* text of the delta (nothing when that text is absent or empty).
C28_DeltaTextExtracted ==
    [][\A s \in DOMAIN streams :
          (OneEventStep(s) /\ StrictEquals(Prop(Appended(s)[1], "event"), "RunResponse"))
              => \A i \in DOMAIN chat :
                     (chat[i].streaming /\ Receives(s, chat[i].id))
                         => chat'[i].text = chat[i].text \o ExtractedText(Appended(s)[1])]_vars

\* C29: the message emitted for a response that has both final_content
\* and content carries the value of final_content.
C29_FinalContentPreferred ==
    (renderedBy # "none" /\ thrown = "none" /\ history.kind = "turns") =>
        \A t \in 1..Len(history.turns) :
            "assistant_responses" \in DOMAIN history.turns[t] =>
                \A r \in 1..Len(history.turns[t]["assistant_responses"]) :
                    \E response \in {history.turns[t]["assistant_responses"][r]} :
                        {"final_content", "content"} \subseteq DOMAIN response =>
                            \E j \in 1..Len(rendered) :
                                /\ rendered[j].id = response["message_id"]
                                /\ rendered[j].content = response["final_content"]

\* The texts made of the stream's own events: the texts of consecutive
\* deltas, in order, the final text of a Completed event, or nothing.
RECURSIVE DeltaTexts(_)
DeltaTexts(events) ==
    IF events = << >> THEN ""
    ELSE (IF IsDelta(Head(events)) THEN DeltaText(Head(events)) ELSE "")
             \o DeltaTexts(Tail(events))

OwnTexts(events) ==
    {""} \cup {DeltaTexts(SubSeq(events, i, j)) : i, j \in DOMAIN events}
         \cup {StringOf(Prop(events[i], "content")) :
                   i \in {k \in DOMAIN events : IsCompleted(events[k])}}

\* C30: with two sends under way, the text of every message a stream has
\* created (and that shows no error) is made of the events of that stream
\* only: the deltas of the other stream are not in it.
C30_StreamsDoNotMix ==
    \A s \in DOMAIN streams :
        \A i \in DOMAIN chat :
            (/\ \E k \in DOMAIN streams[s].created : streams[s].created[k] = chat[i].id
             /\ ~chat[i].error)
                => chat[i].text \in OwnTexts(streams[s].events)

\* Message i of the chat was created by the handler of stream s.
CreatedBy(s, i) == \E j \in DOMAIN streams[s].created : streams[s].created[j] = chat[i].id

\* The reader of stream s has reported the end of the body and the handler
\* has returned.
EndReported(s) == streams[s].pc = "done" /\ ~streams[s].readFailed

\* C32: once the reader of a stream has reported the end of the body and
\* the handler has returned, no message created by the stream carries the
\* streaming flag and no accumulated content of the stream is kept.
C32_EndOfStreamFinalizes ==
    \A s \in DOMAIN streams :
        EndReported(s) =>
            /\ \A i \in DOMAIN chat : CreatedBy(s, i) => ~chat[i].streaming
            /\ streams[s].message.isNull
            /\ streams[s].impl = "ChatManager"
                   => appState.currentStreamingMessage \in {Null, ""}

\* The first line of the step that is not skipped is the end marker.
DoneFirst(decoded) ==
    \E d \in DOMAIN decoded :
        /\ decoded[d].kind = "done"
        /\ \A e \in 1..(d - 1) : decoded[e].kind = "skip"

\* The handler of stream s has left its loop.
Returned(s) == streams[s].pc \in {"awaitReturn", "finalRefresh", "done"}

\* C35: a read step of ChatManager.handleStreamingResponse that comes to
\* the line 'data: [DONE]' takes the streaming flag and the cursor from
\* the message in flight and leaves the content accumulated so far in it,
\* hands no line after the marker to handleStreamingEvent and leaves the
\* loop; a handler that has left the loop reads no chunk and handles no
\* event any more.
C35_DoneFinalizesAndEnds ==
    [][\A s \in DOMAIN streams :
          streams[s].impl = "ChatManager" =>
              /\ (ReadStep(s) /\ DoneFirst(StepDecoded(s)))
                     => /\ Appended(s) = << >>
                        /\ Returned(s)'
                        /\ \A i \in DOMAIN chat :
                               (chat[i].id = streams[s].messageId /\ chat[i].streaming)
                                   => /\ chat'[i].id = chat[i].id
                                      /\ ~chat'[i].streaming
                                      /\ ~chat'[i].cursor
                                      /\ chat'[i].text = chat[i].text
                                      /\ appState'.currentStreamingMessage = Null
              /\ Returned(s)
                     => /\ streams'[s].pos = streams[s].pos
                        /\ streams'[s].events = streams[s].events
                        /\ Returned(s)']_vars

\* C35 witness: the chunk that began with 'data: [DONE]' went on to the
\* end of a body with a delta 'lo' after the marker; the handler has left
\* the loop, the message holds the 'lo' accumulated before the marker and
\* is no longer streaming, and the only event handled is the one before
\* the marker.
C35_Witness ==
    \E s \in DOMAIN streams :
        /\ streams[s].impl = "ChatManager"
        /\ network[s].text = Text.Framing
        /\ streams[s].pc = "awaitReturn"
        /\ streams[s].pos = Len(network[s].text)
        /\ Len(streams[s].events) = 1
        /\ \E i \in DOMAIN chat :
               /\ chat[i].id = streams[s].messageId
               /\ chat[i].text = "lo"
               /\ ~chat[i].streaming
        /\ appState.currentStreamingMessage = Null

\* The currentSessionId of the stored state.
PersistedSessionId == Get(localStorage.doc, "currentSessionId")

\* The messages of the conversation of a session, as the chat container shows them.
ConversationOf(sessionId) == renderConversationHistory_elements(SessionDocument(sessionId))

\* C31: when the last pending getSession of two or more loadSession calls
\* is answered, all of them having been answered, and the current session
\* is the one of the last call, the chat container shows the conversation
\* of the current session.
C31_DisplayedSessionIsCurrent ==
    [][\A k \in DOMAIN sessionLoads :
          (/\ loadSession_getSession(k, "resolved")
           /\ Len(sessionLoads) >= 2
           /\ \A j \in DOMAIN sessionLoads : sessionLoads'[j].pc = "done"
           /\ appState.currentSessionId = sessionLoads[Len(sessionLoads)].sessionId)
              => chat' = ConversationOf(appState'.currentSessionId)]_vars

\* The first session of the list that is not the given one, null when there is none.
FirstOther(sessions, sessionId) ==
    IF \A j \in DOMAIN sessions : sessions[j] = sessionId THEN Null
    ELSE sessions[CHOOSE j \in DOMAIN sessions :
                      /\ sessions[j] # sessionId
                      /\ \A i \in 1..(j - 1) : sessions[i] = sessionId]

NoSessionSelected == appState.currentSessionId \in {Null, Undefined}

\* C37: when getSessions answers loadSessions with a list that is not
\* empty while no session is selected, loadSession is called for the first
\* session of the list (it becomes the current one and its document is
\* requested); otherwise the current session stays what it was and no
\* session document is requested.
C37_LoadSessionsOpensFirstWhenNoneSelected ==
    [][\A listed \in SessionLists, pagination \in ListPaginations :
          SessionManager_loadSessions(listed, pagination, "resolved")
              => IF listed # << >> /\ NoSessionSelected
                 THEN /\ appState'.currentSessionId = listed[1]
                      /\ sessionLoads' = Append(sessionLoads, [sessionId |-> listed[1],
                                                                pc |-> "getSession"])
                 ELSE /\ appState'.currentSessionId = appState.currentSessionId
                      /\ sessionLoads' = sessionLoads]_vars

\* C37 witness: the list of two sessions is in AppState, the current
\* session is the one restored from the stored state, and no session
\* document was ever requested.
C37_Witness ==
    /\ appPc = "running"
    /\ appState.sessions = <<"abc", "s2">>
    /\ appState.currentSessionId = "abc"
    /\ sessionLoads = << >>
    /\ chat = << >>

===========================================================================
